---- MODULE Spec2Model ----
(***************************************************************************)
(* Industry-news service of the backend: provider registry, response       *)
(* parsers, summary builder, TTL cache, bulk fetch and the rate limiter    *)
(* that guards the news endpoints; the memory endpoint and the prompt      *)
(* context assembled from onboarding data, memories, news hooks and vector *)
(* search.                                                                 *)
(*                                                                         *)
(* Modelling conventions                                                   *)
(*   - A Python str is a sequence of tokens (each token a non-empty piece  *)
(*     of text); "" is <<>>, concatenation is \o.  Slugs, provider names,  *)
(*     environment variable names and dictionary keys are kept as atoms.   *)
(*   - A Python / JSON value is a tagged record [t |-> tag, v |-> value].  *)
(*   - A raised exception is the value Raise(name).                        *)
(*   - Wall-clock time (time.time(), datetime.now()) is the variable now,  *)
(*     in seconds; it never decreases.                                     *)
(***************************************************************************)
EXTENDS Integers, Sequences, FiniteSets, Bags, TLC

(***************************************************************************)
(* Python / JSON values                                                    *)
(***************************************************************************)
None == [t |-> "null", v |-> <<>>]
JStr(s) == [t |-> "str", v |-> s]
JNum(s) == [t |-> "num", v |-> s]
JDict(f) == [t |-> "dict", v |-> f]
JList(q) == [t |-> "list", v |-> q]
Raise(e) == [t |-> "raise", v |-> e]
IsRaise(x) == x.t = "raise"

EmptyDict == JDict(<<>>)
EmptyList == JList(<<>>)

\* bool(x)
Truthy(x) ==
  CASE x.t = "null" -> FALSE
    [] x.t = "str" -> x.v # <<>>
    [] x.t = "num" -> x.v # <<"0">>
    [] x.t = "int" -> x.v # 0
    [] x.t = "dict" -> DOMAIN x.v # {}
    [] x.t = "list" -> x.v # <<>>
    [] OTHER -> TRUE

\* a or b
PyOr(a, b) == IF Truthy(a) THEN a ELSE b

\* x.get(k, d): AttributeError on anything that is not a dict
GetD(x, k, d) ==
  IF x.t # "dict" THEN Raise("AttributeError")
  ELSE IF k \in DOMAIN x.v THEN x.v[k] ELSE d

\* x.get(k)
Get(x, k) == GetD(x, k, None)

RECURSIVE SetToSeq(_)
SetToSeq(S) ==
  IF S = {} THEN <<>>
  ELSE LET e == CHOOSE e \in S : TRUE IN <<e>> \o SetToSeq(S \ {e})

\* for item in x: the items a for-loop sees, or the TypeError of a non-iterable
Iterable(x) == x.t \in {"list", "dict", "str"}

Iter(x) ==
  CASE x.t = "list" -> x.v
    [] x.t = "dict" -> [i \in 1..Cardinality(DOMAIN x.v) |-> JStr(<<SetToSeq(DOMAIN x.v)[i]>>)]
    [] x.t = "str" -> [i \in 1..Len(x.v) |-> JStr(<<x.v[i]>>)]

FirstRaise(q) == q[CHOOSE i \in 1..Len(q) : IsRaise(q[i]) /\ \A j \in 1..(i - 1) : ~IsRaise(q[j])]

\* articles = []; for item in x: articles.append(P(item)); the first exception escapes
AppendEach(x, P(_)) ==
  IF IsRaise(x) THEN x
  ELSE IF ~Iterable(x) THEN Raise("TypeError")
  ELSE LET it == Iter(x) IN
    LET out == [i \in 1..Len(it) |-> P(it[i])] IN
      IF \E i \in 1..Len(out) : IsRaise(out[i]) THEN FirstRaise(out)
      ELSE JList(out)

\* q[:n]
Take(q, n) == SubSeq(q, 1, IF Len(q) < n THEN Len(q) ELSE n)

(***************************************************************************)
(* api/news/parsers.py                                                     *)
(***************************************************************************)
ArticleDict(title, description, url, published_at, source) ==
  IF IsRaise(title) THEN title
  ELSE IF IsRaise(description) THEN description
  ELSE IF IsRaise(url) THEN url
  ELSE IF IsRaise(published_at) THEN published_at
  ELSE IF IsRaise(source) THEN source
  ELSE JDict([title |-> title, description |-> description, url |-> url,
              published_at |-> published_at, source |-> source])

GnewsItem(item) ==
  IF item.t # "dict" THEN Raise("AttributeError")
  ELSE ArticleDict(Get(item, "title"), Get(item, "description"), Get(item, "url"),
                   Get(item, "publishedAt"),
                   Get(PyOr(Get(item, "source"), EmptyDict), "name"))

_parse_gnews(payload) == AppendEach(GetD(payload, "articles", EmptyList), GnewsItem)

FmpItem(item) ==
  IF item.t # "dict" THEN Raise("AttributeError")
  ELSE ArticleDict(Get(item, "title"), Get(item, "text"), Get(item, "url"),
                   Get(item, "publishedDate"), Get(item, "site"))

_parse_fmp(payload) == AppendEach(payload, FmpItem)

NewsdataItem(item) ==
  IF item.t # "dict" THEN Raise("AttributeError")
  ELSE ArticleDict(Get(item, "title"),
                   PyOr(Get(item, "description"), Get(item, "content")),
                   Get(item, "link"), Get(item, "pubDate"), Get(item, "source_id"))

_parse_newsdata(payload) == AppendEach(GetD(payload, "results", EmptyList), NewsdataItem)

GdeltItem(item) ==
  IF item.t # "dict" THEN Raise("AttributeError")
  ELSE ArticleDict(Get(item, "title"), Get(item, "seendate"), Get(item, "url"),
                   Get(item, "seendate"),
                   PyOr(Get(item, "sourceCommonName"), Get(item, "sourceCountry")))

_parse_gdelt(payload) == AppendEach(GetD(payload, "articles", EmptyList), GdeltItem)

GuardianItem(item) ==
  IF item.t # "dict" THEN Raise("AttributeError")
  ELSE LET fields == GetD(item, "fields", EmptyDict) IN
    IF fields.t # "dict" THEN Raise("AttributeError")
    ELSE ArticleDict(Get(item, "webTitle"),
                     PyOr(Get(fields, "trailText"), Get(fields, "headline")),
                     Get(item, "webUrl"), Get(item, "webPublicationDate"),
                     JStr(<<"The Guardian">>))

_parse_guardian(payload) ==
  LET response == GetD(payload, "response", EmptyDict) IN
    IF IsRaise(response) THEN response
    ELSE AppendEach(GetD(response, "results", EmptyList), GuardianItem)

NewsapiItem(item) ==
  IF item.t # "dict" THEN Raise("AttributeError")
  ELSE ArticleDict(Get(item, "title"), Get(item, "description"), Get(item, "url"),
                   Get(item, "publishedAt"),
                   Get(PyOr(Get(item, "source"), EmptyDict), "name"))

_parse_newsapi(payload) == AppendEach(GetD(payload, "articles", EmptyList), NewsapiItem)

AlphavantageLimit == 10

AlphavantageItem(item) ==
  IF item.t # "dict" THEN Raise("AttributeError")
  ELSE ArticleDict(Get(item, "title"), Get(item, "summary"), Get(item, "url"),
                   Get(item, "time_published"), Get(item, "source"))

_parse_alphavantage(payload) ==
  LET articles == AppendEach(GetD(payload, "feed", EmptyList), AlphavantageItem) IN
    IF IsRaise(articles) THEN articles
    ELSE JList(Take(articles.v, AlphavantageLimit))

\* config.parser(payload)
Parse(parser, payload) ==
  CASE parser = "_parse_gnews" -> _parse_gnews(payload)
    [] parser = "_parse_fmp" -> _parse_fmp(payload)
    [] parser = "_parse_newsdata" -> _parse_newsdata(payload)
    [] parser = "_parse_gdelt" -> _parse_gdelt(payload)
    [] parser = "_parse_guardian" -> _parse_guardian(payload)
    [] parser = "_parse_newsapi" -> _parse_newsapi(payload)
    [] parser = "_parse_alphavantage" -> _parse_alphavantage(payload)

(***************************************************************************)
(* api/news/models.py                                                      *)
(***************************************************************************)
IsStr(x) == x.t = "str"
IsOptionalStr(x) == x.t \in {"str", "null"}

\* Article(**article): title and url are required str, description and source
\* Optional[str]; published_at is declared with alias "publishedAt", so the
\* keyword published_at is not a field name the model accepts and the field
\* keeps its default None.
Article(article) ==
  IF /\ IsStr(Get(article, "title"))
     /\ IsOptionalStr(Get(article, "description"))
     /\ IsStr(Get(article, "url"))
     /\ IsOptionalStr(Get(article, "source"))
  THEN [t |-> "Article", title |-> Get(article, "title"),
        description |-> Get(article, "description"), url |-> Get(article, "url"),
        published_at |-> None, source |-> Get(article, "source")]
  ELSE Raise("ValidationError")

IndustryNewsResponse(industry, slug, provider, articles, summary) ==
  [t |-> "IndustryNewsResponse", industry |-> industry, slug |-> slug,
   provider |-> provider, articles |-> articles, summary |-> summary]

IsResponse(x) == x.t = "IndustryNewsResponse"

HTTPException(status_code, detail) ==
  [t |-> "raise", v |-> "HTTPException", status_code |-> status_code, detail |-> detail]

IsHTTPException(x) == IsRaise(x) /\ x.v = "HTTPException"

(***************************************************************************)
(* api/news/news.py: the provider registry                                 *)
(***************************************************************************)
NoApiKeyEnv == "None"

IndustryAPIConfig(slug, industry, provider, endpoint, api_key_env, requires_api_key, parser) ==
  [t |-> "IndustryAPIConfig", slug |-> slug, industry |-> industry, provider |-> provider, endpoint |-> endpoint,
   api_key_env |-> api_key_env, requires_api_key |-> requires_api_key, parser |-> parser]

INDUSTRY_CONFIGS ==
  << IndustryAPIConfig("technology", "Technology", "GNews",
                       "https://gnews.io/api/v4/top-headlines",
                       "GNEWS_API_KEY", TRUE, "_parse_gnews"),
     IndustryAPIConfig("finance", "Finance", "Alpha Vantage",
                       "https://www.alphavantage.co/query",
                       "ALPHAVANTAGE_API_KEY", TRUE, "_parse_alphavantage"),
     IndustryAPIConfig("healthcare", "Healthcare", "NewsData.io",
                       "https://newsdata.io/api/1/news",
                       "NEWSDATA_API_KEY", TRUE, "_parse_newsdata"),
     IndustryAPIConfig("energy", "Energy", "GDELT Project",
                       "https://api.gdeltproject.org/api/v2/doc/doc",
                       NoApiKeyEnv, FALSE, "_parse_gdelt"),
     IndustryAPIConfig("retail", "Retail", "The Guardian Open Platform",
                       "https://content.guardianapis.com/search",
                       "GUARDIAN_API_KEY", TRUE, "_parse_guardian"),
     IndustryAPIConfig("transportation", "Transportation", "NewsAPI.org",
                       "https://newsapi.org/v2/everything",
                       "NEWSAPI_KEY", TRUE, "_parse_newsapi") >>

\* industry.lower() on the registry's display names
Lower(industry) ==
  CASE industry = "Technology" -> "technology"
    [] industry = "Finance" -> "finance"
    [] industry = "Healthcare" -> "healthcare"
    [] industry = "Energy" -> "energy"
    [] industry = "Retail" -> "retail"
    [] industry = "Transportation" -> "transportation"
    [] OTHER -> industry

(***************************************************************************)
(* api/news/summary_builder.py                                             *)
(***************************************************************************)
MaxHeadlines == 5

Whitespace == {" ", "\n", "\t"}

\* s.strip()
RECURSIVE LStrip(_)
LStrip(s) == IF s # <<>> /\ Head(s) \in Whitespace THEN LStrip(Tail(s)) ELSE s

RECURSIVE RStrip(_)
RStrip(s) ==
  IF s # <<>> /\ s[Len(s)] \in Whitespace THEN RStrip(SubSeq(s, 1, Len(s) - 1)) ELSE s

Strip(s) == RStrip(LStrip(s))

\* sep.join(parts)
RECURSIVE Join(_, _)
Join(parts, sep) ==
  IF parts = <<>> THEN <<>>
  ELSE IF Len(parts) = 1 THEN parts[1]
  ELSE parts[1] \o <<sep>> \o Join(Tail(parts), sep)

HasTitle(article) == Truthy(article.title)

\* [article.title for article in articles if article.title][:5]
TopHeadlines(articles) ==
  LET titled == SelectSeq(articles, HasTitle) IN
    Take([i \in 1..Len(titled) |-> titled[i].title.v], MaxHeadlines)

\* [a.title for a in articles]
Titles(articles) == [i \in 1..Len(articles) |-> articles[i].title.v]

NoHeadlinesSummary(industry) ==
  <<"No recent ", Lower(industry), " headlines are available.">>

_build_fallback_summary(industry, headlines) ==
  <<industry, " snapshot: ">> \o Join(headlines, "; ")

\* The reply of client.chat.completions.create: an exception, or a response
\* whose choices each carry message.content (a str or None).
ChatCompletion(choices) == [t |-> "ChatCompletion", choices |-> choices]

\* _call_llm once the completion call has returned `reply` (the client is set
\* whenever build_summary reaches it)
_call_llm(industry, provider, articles, reply) ==
  IF IsRaise(reply) THEN reply
  ELSE LET content == IF reply.choices # <<>> THEN reply.choices[1] ELSE None IN
    IF ~Truthy(content)
    THEN JStr(_build_fallback_summary(industry, Titles(articles)))
    ELSE JStr(Strip(content.v))

\* build_summary suspends (run_in_threadpool) only when there are headlines and
\* a client is configured
SummaryNeedsLlm(client, articles) == TopHeadlines(articles) # <<>> /\ client

\* build_summary when it returns without calling the LLM
SummaryWithoutLlm(industry, articles) ==
  IF TopHeadlines(articles) = <<>> THEN NoHeadlinesSummary(industry)
  ELSE _build_fallback_summary(industry, TopHeadlines(articles))

\* build_summary after the thread-pool call has ended with `reply`
SummaryWithLlm(industry, provider, articles, reply) ==
  LET r == _call_llm(industry, provider, Take(articles, MaxHeadlines), reply) IN
    IF IsRaise(r) THEN _build_fallback_summary(industry, TopHeadlines(articles))
    ELSE r.v

\* build_summary(industry, provider, articles) with self.client set or not
\* and, when the LLM is called, the completion call ending with `reply`
build_summary(industry, provider, articles, client, reply) ==
  IF SummaryNeedsLlm(client, articles)
  THEN SummaryWithLlm(industry, provider, articles, reply)
  ELSE SummaryWithoutLlm(industry, articles)

(***************************************************************************)
(* utils/rate_limit.py                                                     *)
(***************************************************************************)
NewsMaxRequests == 30
NewsWindowSeconds == 3600
OpenaiMaxRequests == 10
OpenaiWindowSeconds == 3600

\* check_rate_limit(ip) at time t on store st.  self._store[ip] on the
\* defaultdict inserts (0, datetime.now()) for an unseen ip; that second clock
\* reading is taken after `now` and is either equal to it (sameReading) or
\* later by less than the model's time unit.
\* the count incremented before the limit is tested: refused calls count too
check_rate_limitCountingRefusals(st, ip, t, sameReading, max_requests, window_seconds) ==
  LET seen == ip \in DOMAIN st
      count == IF seen THEN st[ip].count ELSE 0
      reset_time == IF seen THEN st[ip].reset_time ELSE t
      expired == IF seen THEN t >= reset_time ELSE sameReading
  IN IF expired
     THEN [allowed |-> TRUE,
           store |-> (ip :> [count |-> 1, reset_time |-> t + window_seconds]) @@ st]
     ELSE [allowed |-> count < max_requests,
           store |-> (ip :> [count |-> count + 1, reset_time |-> reset_time]) @@ st]

check_rate_limit(st, ip, t, sameReading, max_requests, window_seconds) ==
  LET seen == ip \in DOMAIN st
      count == IF seen THEN st[ip].count ELSE 0
      reset_time == IF seen THEN st[ip].reset_time ELSE t
      expired == IF seen THEN t >= reset_time ELSE sameReading
  IN IF expired
     THEN [allowed |-> TRUE,
           store |-> (ip :> [count |-> 1, reset_time |-> t + window_seconds]) @@ st]
     ELSE IF count >= max_requests
     THEN [allowed |-> FALSE,
           store |-> (ip :> [count |-> count, reset_time |-> reset_time]) @@ st]
     ELSE [allowed |-> TRUE,
           store |-> (ip :> [count |-> count + 1, reset_time |-> reset_time]) @@ st]

\* get_remaining_requests(ip) at time t on store st: the lookup inserts
\* (0, datetime.now()) for an unseen ip, a reading taken before `now`
get_remaining_requests(st, ip, t, max_requests) ==
  LET seen == ip \in DOMAIN st
      count == IF seen THEN st[ip].count ELSE 0
      reset_time == IF seen THEN st[ip].reset_time ELSE t
  IN [remaining |-> IF t >= reset_time THEN max_requests
                    ELSE IF max_requests - count > 0 THEN max_requests - count ELSE 0,
      store |-> (ip :> [count |-> count, reset_time |-> reset_time]) @@ st]

(***************************************************************************)
(* api/news/service.py                                                     *)
(***************************************************************************)
CacheTtl == 300

ConfigSlugs == [i \in 1..Len(INDUSTRY_CONFIGS) |-> INDUSTRY_CONFIGS[i].slug]

\* self._configs.get(slug)
ConfigsGet(slug) ==
  IF \E i \in 1..Len(INDUSTRY_CONFIGS) : INDUSTRY_CONFIGS[i].slug = slug
  THEN INDUSTRY_CONFIGS[CHOOSE i \in 1..Len(INDUSTRY_CONFIGS) : INDUSTRY_CONFIGS[i].slug = slug]
  ELSE None

\* `slug` is the text of the slug as a str
_get_config(slug) ==
  LET config == IF Len(slug) = 1 THEN ConfigsGet(slug[1]) ELSE None IN
    IF ~Truthy(config)
    THEN HTTPException(404, <<"Unknown industry slug '">> \o slug
                            \o <<"'. Available options: ">>
                            \o Join([i \in 1..Len(ConfigSlugs) |-> <<ConfigSlugs[i]>>], ", "))
    ELSE config

\* os.getenv(name, "demo"): a default stands in for an unset variable
GetenvWithDefault(e, name) == IF name \in DOMAIN e THEN JStr(e[name]) ELSE JStr(<<"demo">>)

\* os.getenv(name) on environment e
Getenv(e, name) == IF name \in DOMAIN e THEN JStr(e[name]) ELSE None

\* config.api_key_env or ""
ApiKeyEnvOrEmpty(config) == IF config.api_key_env = NoApiKeyEnv THEN "" ELSE config.api_key_env

IndustryInfo(slug, industry, provider, requires_api_key, api_key_env, is_configured) ==
  [t |-> "IndustryInfo", slug |-> slug, industry |-> industry, provider |-> provider,
   requires_api_key |-> requires_api_key, api_key_env |-> api_key_env,
   is_configured |-> is_configured]

\* os.getenv(...) is not None: an empty variable counts as configured
ApiKeyPresentWhenSet(config, e) ==
  IF config.api_key_env # NoApiKeyEnv THEN config.api_key_env \in DOMAIN e ELSE TRUE

\* bool(os.getenv(config.api_key_env)) if config.api_key_env else True
ApiKeyPresent(config, e) ==
  IF config.api_key_env # NoApiKeyEnv THEN Truthy(Getenv(e, config.api_key_env)) ELSE TRUE

\* list_industries() on environment e
list_industries(e) ==
  [i \in 1..Len(INDUSTRY_CONFIGS) |->
     IndustryInfo(INDUSTRY_CONFIGS[i].slug, INDUSTRY_CONFIGS[i].industry,
                  INDUSTRY_CONFIGS[i].provider, INDUSTRY_CONFIGS[i].requires_api_key,
                  INDUSTRY_CONFIGS[i].api_key_env, ApiKeyPresent(INDUSTRY_CONFIGS[i], e))]

CacheEntry(timestamp, payload) == [t |-> "entry", timestamp |-> timestamp, payload |-> payload]

\* self._cache.get(slug)
CacheGet(c, slug) == IF slug \in DOMAIN c THEN c[slug] ELSE None

\* the comparison written with < instead of <=
CacheValidExclusive(cached, t) == cached.t = "entry" /\ t - cached.timestamp < CacheTtl

\* cached and (time.time() - cached["timestamp"] <= self._cache_ttl)
CacheValid(cached, t) == cached.t = "entry" /\ t - cached.timestamp <= CacheTtl

\* the cache write left out
CacheStoreDropped(c, slug, t, response) == c

\* cached["payload"] = response on an existing entry, its timestamp kept
CacheStoreInPlace(c, slug, t, response) ==
  IF slug \in DOMAIN c THEN [c EXCEPT ![slug].payload = response]
  ELSE (slug :> CacheEntry(t, response)) @@ c

\* self._cache[slug] = {"timestamp": time.time(), "payload": response}
CacheStore(c, slug, t, response) == (slug :> CacheEntry(t, response)) @@ c

\* httpx exception classes
TimeoutExceptions == {"ConnectTimeout", "ReadTimeout", "WriteTimeout", "PoolTimeout"}
HTTPErrors ==
  TimeoutExceptions \cup {"ConnectError", "ReadError", "RemoteProtocolError", "HTTPStatusError"}

\* str(exc)
ExcText(exc) == <<exc.v>>

\* except httpx.HTTPError placed before except httpx.TimeoutException
MapFetchErrorHTTPErrorFirst(config, exc) ==
  IF exc.v = "MissingAPIKey"
  THEN HTTPException(503, <<config.provider, " configuration incomplete. Please set ",
                            config.api_key_env, ".">>)
  ELSE IF exc.v \in HTTPErrors
  THEN HTTPException(502, <<config.provider, " request failed: ">> \o ExcText(exc))
  ELSE IF exc.v \in TimeoutExceptions
  THEN HTTPException(504, <<config.provider, " timed out: ">> \o ExcText(exc))
  ELSE exc

\* the except clauses of get_industry_news, in their order
MapFetchError(config, exc) ==
  IF exc.v = "MissingAPIKey"
  THEN HTTPException(503, <<config.provider, " configuration incomplete. Please set ",
                            config.api_key_env, ".">>)
  ELSE IF exc.v \in TimeoutExceptions
  THEN HTTPException(504, <<config.provider, " timed out: ">> \o ExcText(exc))
  ELSE IF exc.v \in HTTPErrors
  THEN HTTPException(502, <<config.provider, " request failed: ">> \o ExcText(exc))
  ELSE exc

\* the filter with the title test left out
HasUrlOnly(article) == Truthy(Get(article, "url"))

\* article.get("title") and article.get("url")
HasTitleAndUrl(article) == Truthy(Get(article, "title")) /\ Truthy(Get(article, "url"))

\* [Article(**article) for article in articles_dicts if ...]
BuildArticles(articles_dicts) ==
  LET kept == SelectSeq(articles_dicts, HasTitleAndUrl)
      built == [i \in 1..Len(kept) |-> Article(kept[i])]
  IN IF \E i \in 1..Len(built) : IsRaise(built[i]) THEN FirstRaise(built)
     ELSE JList(built)

\* one get_industry_news coroutine: its arguments, where it is suspended, and
\* what it returned or raised.  owner: 0 for a direct caller, i for the i-th
\* coroutine of a bulk fetch.  called: it issued the outbound GET.  got: the
\* time at which client.get returned the provider's response (history, kept
\* by HttpDoneAt only; -1 otherwise).
NewTask(owner, slug, refresh_cache) ==
  [owner |-> owner, slug |-> slug, refresh_cache |-> refresh_cache, pc |-> "start", called |-> FALSE,
   articles |-> <<>>, result |-> None, got |-> -1]

Finish(tk, result) == [tk EXCEPT !.pc = "done", !.articles = <<>>, !.result = result]

\* the validity check made without looking at refresh_cache
UseCacheIgnoringRefresh(refresh_cache, cached, t) == CacheValid(cached, t)

\* if not refresh_cache: ... if cached and (...): return cached["payload"]
UseCache(refresh_cache, cached, t) == ~refresh_cache /\ CacheValid(cached, t)

\* if config.requires_api_key: ... if not api_key: raise
KeyMissing(config, api_key) == config.requires_api_key /\ ~Truthy(api_key)

\* lines 54-71: up to the suspension in client.get, or an early return / raise
Begin(tk, c, e, t) ==
  LET config == _get_config(tk.slug) IN
    IF IsRaise(config) THEN Finish(tk, config)
    ELSE LET cached == CacheGet(c, config.slug) IN
      IF UseCache(tk.refresh_cache, cached, t) THEN Finish(tk, cached.payload)
      ELSE LET api_key == IF config.requires_api_key
                          THEN Getenv(e, ApiKeyEnvOrEmpty(config)) ELSE None IN
        IF KeyMissing(config, api_key)
        THEN Finish(tk, HTTPException(503,
               <<config.provider, " API key missing. Set ", config.api_key_env,
                 " to enable ", config.industry, " coverage.">>))
        ELSE IF config.requires_api_key /\ ~Truthy(api_key)
        THEN Finish(tk, MapFetchError(config, Raise("MissingAPIKey")))
        ELSE [tk EXCEPT !.pc = "http", !.called = TRUE]

\* lines 71-89: the GET has ended with `outcome` (an exception of the client,
\* of raise_for_status or of response.json(), or the decoded body); parse and
\* build the articles.  A JList of articles, or what the call raises.
Fetched(config, outcome) ==
  LET articles_dicts == IF IsRaise(outcome) THEN outcome ELSE Parse(config.parser, outcome) IN
    IF IsRaise(articles_dicts) THEN MapFetchError(config, articles_dicts)
    ELSE BuildArticles(articles_dicts.v)

\* lines 95-101
Respond(config, articles, summary) ==
  IndustryNewsResponse(config.industry, config.slug, config.provider, articles, summary)

\* a failure that also drops the slug's cache entry
FailedInvalidating(tk, c, exc) ==
  [task |-> Finish(tk, exc), cache |-> [k \in DOMAIN c \ {tk.slug[1]} |-> c[k]]]

\* a failure answered from the slug's cache entry when there is one
FailedServingStale(tk, c, exc) ==
  IF tk.slug[1] \in DOMAIN c
  THEN [task |-> Finish(tk, c[tk.slug[1]].payload), cache |-> c]
  ELSE [task |-> Finish(tk, exc), cache |-> c]

\* What one step of a coroutine leaves behind: the coroutine and the cache.
Failed(tk, c, exc) == [task |-> Finish(tk, exc), cache |-> c]

Suspended(tk, c) == [task |-> tk, cache |-> c]

\* a write guarded by "if slug not in self._cache": the first writer wins
SucceededFirstWriterWins(tk, c, t, response) ==
  IF response.slug \in DOMAIN c THEN [task |-> Finish(tk, response), cache |-> c]
  ELSE [task |-> Finish(tk, response), cache |-> CacheStore(c, response.slug, t, response)]

\* lines 95-104
Succeeded(tk, c, t, response) ==
  [task |-> Finish(tk, response), cache |-> CacheStore(c, response.slug, t, response)]

\* lines 71-104 after client.get has ended with `outcome`, up to the suspension
\* in the summary builder's thread-pool call or to the end of the call
AfterHttp(tk, c, client, t, outcome) ==
  LET config == _get_config(tk.slug)
      articles == Fetched(config, outcome)
  IN IF IsRaise(articles) THEN Failed(tk, c, articles)
     ELSE IF SummaryNeedsLlm(client, articles.v)
     THEN Suspended([tk EXCEPT !.pc = "llm", !.articles = articles.v], c)
     ELSE Succeeded(tk, c, t,
            Respond(config, articles.v, SummaryWithoutLlm(config.industry, articles.v)))

\* lines 91-104 after the thread-pool call has ended with `reply`
AfterLlm(tk, c, t, reply) ==
  LET config == _get_config(tk.slug) IN
    Succeeded(tk, c, t,
      Respond(config, tk.articles,
              SummaryWithLlm(config.industry, config.provider, tk.articles, reply)))

\* requested.split(",")
RECURSIVE Split(_, _)
Split(s, sep) ==
  IF \A i \in 1..Len(s) : s[i] # sep THEN <<s>>
  ELSE LET i == CHOOSE i \in 1..Len(s) : s[i] = sep /\ \A j \in 1..(i - 1) : s[j] # sep IN
    <<SubSeq(s, 1, i - 1)>> \o Split(SubSeq(s, i + 1, Len(s)), sep)

\* the deduplication left out
DedupKeepingAll(slugs, seen) == slugs

\* deduplicate while preserving order
RECURSIVE Dedup(_, _)
Dedup(slugs, seen) ==
  IF slugs = <<>> THEN <<>>
  ELSE IF Head(slugs) \in seen THEN Dedup(Tail(slugs), seen)
  ELSE <<Head(slugs)>> \o Dedup(Tail(slugs), seen \cup {Head(slugs)})

\* the "if slug.strip()" filter left out
AnyStr(s) == TRUE

NonEmptyStr(s) == s # <<>>

\* resolve_slugs without the loop that looks every slug up
resolve_slugsUnchecked(requested) ==
  IF ~Truthy(requested) THEN JList([i \in 1..Len(ConfigSlugs) |-> <<ConfigSlugs[i]>>])
  ELSE LET parts == Split(requested.v, ",")
           slugs == SelectSeq([i \in 1..Len(parts) |-> Strip(parts[i])], NonEmptyStr)
       IN IF slugs = <<>>
          THEN HTTPException(400, <<"No valid industries were provided.">>)
          ELSE JList(Dedup(slugs, {}))

\* resolve_slugs(requested): a JList of slugs, or the HTTPException raised
resolve_slugs(requested) ==
  IF ~Truthy(requested) THEN JList([i \in 1..Len(ConfigSlugs) |-> <<ConfigSlugs[i]>>])
  ELSE LET parts == Split(requested.v, ",")
           slugs == SelectSeq([i \in 1..Len(parts) |-> Strip(parts[i])], NonEmptyStr)
           configs == [i \in 1..Len(slugs) |-> _get_config(slugs[i])]
       IN IF slugs = <<>>
          THEN HTTPException(400, <<"No valid industries were provided.">>)
          ELSE IF \E i \in 1..Len(configs) : IsRaise(configs[i]) THEN FirstRaise(configs)
          ELSE JList(Dedup(slugs, {}))

(***************************************************************************)
(* api/news/news.py: the bulk endpoint                                     *)
(***************************************************************************)
BulkIndustryNewsResponse(results, errors) ==
  [t |-> "BulkIndustryNewsResponse", results |-> results, errors |-> errors]

ResultOk(p) == IsResponse(p[2])
ResultFailed(p) == ~IsResponse(p[2])

\* one entry of errors for the pair (slug, result)
ErrorRecord(p) ==
  IF IsHTTPException(p[2])
  THEN [slug |-> p[1], status_code |-> p[2].status_code, detail |-> p[2].detail]
  ELSE [slug |-> p[1], status_code |-> 500, detail |-> ExcText(p[2])]

\* zip(slugs, responses)
Zip(a, b) == [i \in 1..(IF Len(a) < Len(b) THEN Len(a) ELSE Len(b)) |-> <<a[i], b[i]>>]

\* gather without return_exceptions: the first exception is the answer
AggregateFailFast(slugs, responses) ==
  LET pairs == Zip(slugs, responses)
      ok == SelectSeq(pairs, ResultOk)
      bad == SelectSeq(pairs, ResultFailed)
  IN IF bad # <<>> THEN bad[1][2]
     ELSE BulkIndustryNewsResponse([i \in 1..Len(ok) |-> ok[i][2]], <<>>)

\* the final test written as "if errors": any failure fails the whole call
AggregateAnyErrorFails(slugs, responses) ==
  LET pairs == Zip(slugs, responses)
      ok == SelectSeq(pairs, ResultOk)
      bad == SelectSeq(pairs, ResultFailed)
      results == [i \in 1..Len(ok) |-> ok[i][2]]
      errors == [i \in 1..Len(bad) |-> ErrorRecord(bad[i])]
  IN IF errors # <<>>
     THEN HTTPException(503, [errors |-> errors])
     ELSE BulkIndustryNewsResponse(results, errors)

\* results.insert(0, result) / errors.insert(0, ...): newest first
AggregateNewestFirst(slugs, responses) ==
  LET pairs == Zip(slugs, responses)
      ok == SelectSeq(pairs, ResultOk)
      bad == SelectSeq(pairs, ResultFailed)
      results == [i \in 1..Len(ok) |-> ok[Len(ok) + 1 - i][2]]
      errors == [i \in 1..Len(bad) |-> ErrorRecord(bad[Len(bad) + 1 - i])]
  IN IF results = <<>> /\ errors # <<>>
     THEN HTTPException(503, [errors |-> errors])
     ELSE BulkIndustryNewsResponse(results, errors)

IsHTTPExceptionResult(p) == IsHTTPException(p[2])

\* an error record only for an HTTPException: other exceptions are skipped
AggregateDroppingUntyped(slugs, responses) ==
  LET pairs == Zip(slugs, responses)
      ok == SelectSeq(pairs, ResultOk)
      bad == SelectSeq(pairs, IsHTTPExceptionResult)
      results == [i \in 1..Len(ok) |-> ok[i][2]]
      errors == [i \in 1..Len(bad) |-> ErrorRecord(bad[i])]
  IN IF results = <<>> /\ errors # <<>>
     THEN HTTPException(503, [errors |-> errors])
     ELSE BulkIndustryNewsResponse(results, errors)

\* lines 314-337: the loop over zip(slugs, responses) and the final answer
Aggregate(slugs, responses) ==
  LET pairs == Zip(slugs, responses)
      ok == SelectSeq(pairs, ResultOk)
      bad == SelectSeq(pairs, ResultFailed)
      results == [i \in 1..Len(ok) |-> ok[i][2]]
      errors == [i \in 1..Len(bad) |-> ErrorRecord(bad[i])]
  IN IF results = <<>> /\ errors # <<>>
     THEN HTTPException(503, [errors |-> errors])
     ELSE BulkIndustryNewsResponse(results, errors)

(***************************************************************************)
(* The row store: tables of JSON rows, kept oldest first (created_at        *)
(* ascending).  A read or write of the store may fail; whether it does is   *)
(* an input of the step that makes it.                                      *)
(***************************************************************************)
JInt(n) == [t |-> "int", v |-> n]

\* str(n) inside an f-string
IntText(n) == <<ToString(n)>>

\* q[::-1]
Reverse(q) == [i \in 1..Len(q) |-> q[Len(q) + 1 - i]]

\* the filter on user_id left out
EqUserIdUnfiltered(rows, user_id) == rows

\* .eq("user_id", user_id)
EqUserId(rows, user_id) ==
  LET Mine(row) == Get(row, "user_id") = JStr(user_id) IN SelectSeq(rows, Mine)

\* sep.join(parts) for a separator of several tokens
RECURSIVE JoinWith(_, _)
JoinWith(parts, sep) ==
  IF parts = <<>> THEN <<>>
  ELSE IF Len(parts) = 1 THEN parts[1]
  ELSE parts[1] \o sep \o JoinWith(Tail(parts), sep)

(***************************************************************************)
(* api/onboarding.py                                                       *)
(***************************************************************************)
\* format_value(value)
format_value(value) ==
  IF value.t = "list"
  THEN IF Truthy(value)
       THEN LET kept == SelectSeq(value.v, Truthy) IN
              JoinWith([i \in 1..Len(kept) |-> kept[i].v], <<", ">>)
       ELSE <<"Not provided">>
  ELSE IF Truthy(value) THEN value.v ELSE <<"Not provided">>

\* onboarding_record.get(key) or default
FieldOr(onboarding_record, key, default) ==
  PyOr(Get(onboarding_record, key), JStr(<<default>>)).v

\* dedent(f"""...""").strip(); the dash between name and role is written ---
build_onboarding_prompt_context(onboarding_record) ==
  Strip(
    <<"\n", "Onboarding context: Personalization data captured during signup. ",
      "Use it to shape tone, examples, and relevance.", "\n", "Who they are: ">>
    \o FieldOr(onboarding_record, "name", "Unknown user") \o <<" --- ">>
    \o FieldOr(onboarding_record, "role", "Unknown role") \o <<" at ">>
    \o FieldOr(onboarding_record, "company", "Unknown company") \o <<" (">>
    \o FieldOr(onboarding_record, "industry", "No industry provided") \o <<"). Contact: ">>
    \o FieldOr(onboarding_record, "email", "No email provided") \o <<".", "\n", "Company mission: ">>
    \o FieldOr(onboarding_record, "company_mission", "No mission provided")
    \o <<"\n", "Target audience: ">>
    \o FieldOr(onboarding_record, "target_audience", "No audience provided")
    \o <<"\n", "Topics to post about: ">>
    \o FieldOr(onboarding_record, "topics_to_post", "No topics provided")
    \o <<"\n", "Goals they care about: ">>
    \o format_value(Get(onboarding_record, "selected_goals"))
    \o <<"\n", "Hooks/formats they like: ">>
    \o format_value(Get(onboarding_record, "selected_hooks")) \o <<"\n">>)

(***************************************************************************)
(* api/memory.py: the prompt sections                                      *)
(***************************************************************************)
NoMemoriesText == <<"No stored memories yet.">>
NoNewsText == <<"No recent news context available.">>

\* the body of the loop of build_memory_prompt_section: the line of one item,
\* <<>> for an item whose memory is blank
MemoryLine(item) ==
  LET memory == Strip(GetD(item, "memory", JStr(<<>>)).v)
      source == PyOr(Get(item, "source"), JStr(<<"unspecified">>)).v
      importance == Get(item, "importance")
      suffix == <<" (source: ">> \o source
                \o (IF Truthy(importance) THEN <<", importance: ">> \o IntText(importance.v)
                    ELSE <<>>)
                \o <<")">>
  IN IF memory # <<>> THEN <<"- ">> \o memory \o suffix ELSE <<>>

NonEmptySeq(q) == q # <<>>

\* no section at all for an empty list of memories
build_memory_prompt_sectionOmittingEmpty(memories) ==
  IF memories = <<>> THEN <<>>
  ELSE LET lines == SelectSeq([i \in 1..Len(memories) |-> MemoryLine(memories[i])], NonEmptySeq)
       IN <<"User memory (keep this in mind):", "\n">> \o JoinWith(lines, <<"\n">>)

build_memory_prompt_section(memories) ==
  IF memories = <<>> THEN NoMemoriesText
  ELSE LET lines == SelectSeq([i \in 1..Len(memories) |-> MemoryLine(memories[i])], NonEmptySeq)
       IN <<"User memory (keep this in mind):", "\n">> \o JoinWith(lines, <<"\n">>)

\* the body of the loop of build_news_prompt_section
NewsLine(item) ==
  LET industry == PyOr(PyOr(Get(item, "industry"), Get(item, "industry_slug")), JStr(<<"News">>)).v
      summary == PyOr(Get(item, "summary"), JStr(<<>>)).v
  IN <<"- ">> \o industry \o <<": ">> \o summary

build_news_prompt_section(news_items) ==
  IF news_items = <<>> THEN NoNewsText
  ELSE <<"Recent news context:", "\n">>
       \o JoinWith([i \in 1..Len(news_items) |-> NewsLine(news_items[i])], <<"\n">>)

(***************************************************************************)
(* api/memory.py: add_memories                                             *)
(***************************************************************************)
MemoryMaxLength == 500
SourceMaxLength == 100
ImportanceMin == 1
ImportanceMax == 5
ImportanceDefault == 3
MaxMemoriesPerRequest == 5

\* constr(strip_whitespace=True, min_length=1, max_length=n) on a value; a str
\* is measured in tokens
Constr(value, max_length) ==
  IF value.t # "str" THEN Raise("ValidationError")
  ELSE LET stripped == Strip(value.v) IN
    IF Len(stripped) < 1 \/ Len(stripped) > max_length THEN Raise("ValidationError")
    ELSE JStr(stripped)

\* conint(ge=1, le=5)
Conint(value) ==
  IF value.t # "int" THEN Raise("ValidationError")
  ELSE IF value.v < ImportanceMin \/ value.v > ImportanceMax THEN Raise("ValidationError")
  ELSE value

\* MemoryItem(**raw): the validated item, or the validation error
MemoryItem(raw) ==
  IF raw.t # "dict" THEN Raise("ValidationError")
  ELSE LET memory == IF "memory" \in DOMAIN raw.v THEN Constr(raw.v["memory"], MemoryMaxLength)
                     ELSE Raise("ValidationError")
           source == IF "source" \in DOMAIN raw.v THEN Constr(raw.v["source"], SourceMaxLength)
                     ELSE JStr(<<"unspecified">>)
           importance == IF "importance" \in DOMAIN raw.v
                         THEN IF raw.v["importance"] = None THEN None
                              ELSE Conint(raw.v["importance"])
                         ELSE JInt(ImportanceDefault)
       IN IF IsRaise(memory) THEN memory
          ELSE IF IsRaise(source) THEN source
          ELSE IF IsRaise(importance) THEN importance
          ELSE [t |-> "MemoryItem", memory |-> memory, source |-> source,
                importance |-> importance]

\* MemoryBatchRequest(**body): the validated items, or the validation error
\* that FastAPI answers with 422 before the handler runs
MemoryBatchRequest(body) ==
  IF body.t # "dict" \/ "memories" \notin DOMAIN body.v THEN Raise("ValidationError")
  ELSE IF body.v["memories"].t # "list" THEN Raise("ValidationError")
  ELSE LET items == [i \in 1..Len(body.v["memories"].v) |-> MemoryItem(body.v["memories"].v[i])]
       IN IF \E i \in 1..Len(items) : IsRaise(items[i]) THEN FirstRaise(items)
          ELSE JList(items)

\* the module's admin client: set when SUPABASE_SERVICE_ROLE_KEY is
AdminAvailable(e) == Truthy(Getenv(e, "SUPABASE_SERVICE_ROLE_KEY"))

\* lines 108-113: the row of one item
MemoryRow(user_id, mem) ==
  JDict([user_id |-> JStr(user_id),
         memory |-> JStr(Strip(mem.memory.v)),
         source |-> JStr(Strip(mem.source.v)),
         importance |-> PyOr(mem.importance, JInt(ImportanceDefault))])

\* the limit written with >= : a batch of 5 is refused
BatchSizeRefusedAtLimit(memories) ==
  IF Len(memories) = 0 THEN HTTPException(400, <<"No memories provided">>)
  ELSE IF Len(memories) >= MaxMemoriesPerRequest
  THEN HTTPException(400, <<"Maximum 5 memories per request">>)
  ELSE None

\* lines 100-103
BatchSizeRefused(memories) ==
  IF Len(memories) = 0 THEN HTTPException(400, <<"No memories provided">>)
  ELSE IF Len(memories) > MaxMemoriesPerRequest
  THEN HTTPException(400, <<"Maximum 5 memories per request">>)
  ELSE None

\* POST /api/memory for the authenticated user on table `rows`; fails: the
\* insert raises.  The answer and the table afterwards.
add_memories(e, rows, user_id, body, fails) ==
  LET payload == MemoryBatchRequest(body) IN
    IF IsRaise(payload)
    THEN [answer |-> HTTPException(422, <<"validation error">>), rows |-> rows]
    ELSE IF ~AdminAvailable(e)
    THEN [answer |-> HTTPException(500, <<"Admin client not available">>), rows |-> rows]
    ELSE IF BatchSizeRefused(payload.v) # None
    THEN [answer |-> BatchSizeRefused(payload.v), rows |-> rows]
    ELSE LET new == [i \in 1..Len(payload.v) |-> MemoryRow(user_id, payload.v[i])] IN
      IF fails
      THEN [answer |-> HTTPException(500, <<"Error saving memories: ", "APIError">>),
            rows |-> rows]
      ELSE [answer |-> [t |-> "saved", message |-> <<"Memories saved">>,
                        inserted |-> Len(new), data |-> new],
            rows |-> rows \o new]

(***************************************************************************)
(* linkedin_supabase_service.py                                            *)
(***************************************************************************)
\* SupabaseService() on environment e: None, or the ValueError
SupabaseService(e) ==
  IF ~Truthy(Getenv(e, "SUPABASE_URL")) \/ ~Truthy(Getenv(e, "SUPABASE_SERVICE_ROLE_KEY"))
  THEN Raise("ValueError")
  ELSE None

\* the parameters of get_news_hooks
GetNewsHooksParameters == {"industry_slug", "limit", "offset"}

NewsHooksDefaultLimit == 50
NewsHooksMaxLimit == 100

\* q[offset : offset + limit]
Range(q, offset, limit) ==
  SubSeq(q, offset + 1, IF Len(q) < offset + limit THEN Len(q) ELSE offset + limit)

\* get_news_hooks(industry_slug, limit, offset) on table `rows`; `fails`: the
\* query raises
get_news_hooks(rows, industry_slug, limit, offset, fails) ==
  IF limit < 1 \/ limit > NewsHooksMaxLimit THEN Raise("ValueError")
  ELSE IF offset < 0 THEN Raise("ValueError")
  ELSE IF fails THEN Raise("Exception")
  ELSE LET OfSlug(row) == Truthy(industry_slug) => Get(row, "industry_slug") = industry_slug
       IN JList(Range(SelectSeq(Reverse(rows), OfSlug), offset, limit))

(***************************************************************************)
(* services/prompt_context.py                                              *)
(***************************************************************************)
DefaultMemoryLimit == 5
DefaultNewsLimit == 3
SnippetLength == 500

NoneFoundText == <<"Onboarding context: none found for this user.">>
NoContextText == <<"No personalization context available.">>

\* QdrantService() succeeds on environment e
QdrantConfigured(e) ==
  /\ Truthy(Getenv(e, "QDRANT_URL"))
  /\ Truthy(Getenv(e, "QDRANT_KEY"))
  /\ Truthy(Getenv(e, "OPENAI_API_KEY"))

\* _get_onboarding(user_id): the row, None, or the exception of the read
_get_onboarding(rows, user_id, fails) ==
  IF fails THEN Raise("APIError")
  ELSE LET data == EqUserId(rows, user_id) IN IF data # <<>> THEN data[1] ELSE None

\* _get_memories(user_id, limit)
_get_memories(rows, user_id, limit, fails) ==
  IF fails THEN Raise("APIError")
  ELSE JList(Take(Reverse(EqUserId(rows, user_id)), limit))

\* the keywords of the call news_service.get_news_hooks(...) at lines 67-70
NewsHooksKeywords == {"industry_slug", "created_after"}

\* lines 63-73: news_items after the guarded read
LoadNewsItems(e, rows, news_limit, fails) ==
  IF news_limit > 0
  THEN LET news_service == SupabaseService(e)
           news_items == IF IsRaise(news_service) THEN news_service
                         ELSE IF ~(NewsHooksKeywords \subseteq GetNewsHooksParameters)
                         THEN Raise("TypeError")
                         ELSE get_news_hooks(rows, None, NewsHooksDefaultLimit, 0, fails)
       IN IF IsRaise(news_items) THEN <<>> ELSE Take(news_items.v, news_limit)
  ELSE <<>>

\* QdrantService.search(query, user_id, top_k) ending with `found` (the hits
\* or an exception of the client)
search(query, user_id, found) ==
  IF ~Truthy(query) \/ Strip(query.v) = <<>> THEN Raise("ValueError")
  ELSE IF user_id = <<>> THEN Raise("ValueError")
  ELSE found

\* lines 75-84
LoadVectorMatches(e, query, user_id, found) ==
  IF Truthy(query) /\ QdrantConfigured(e)
  THEN LET vector_matches == search(query, user_id, found) IN
         IF IsRaise(vector_matches) THEN <<>> ELSE vector_matches.v
  ELSE <<>>

\* f"{score:.4f}" on the scores the search may report
Format4f(score) ==
  CASE score.t = "null" -> Raise("TypeError")
    [] score = JNum(<<"0.9">>) -> JStr(<<"0.9000">>)
    [] score = JNum(<<"0.12345">>) -> JStr(<<"0.1235">>)
    [] OTHER -> JStr(score.v)

\* lines 101-104: one formatted hit
FormatHit(hit) ==
  LET payload == PyOr(Get(hit, "payload"), EmptyDict)
      content == PyOr(Get(payload, "content"), JStr(<<>>)).v
      snippet == Take(content, SnippetLength)
                 \o (IF Len(content) > SnippetLength THEN <<"...">> ELSE <<>>)
      score == Format4f(Get(hit, "score"))
  IN IF IsRaise(score) THEN score
     ELSE JStr(<<"- score ">> \o score.v \o <<": ">> \o snippet)

\* build_prompt_context(user_id, query, memory_limit, news_limit, search_top_k)
\* on environment e and row store d.  up: how the upstream calls end
\* (onboarding, memories, news: the read fails; search: what the search finds).
build_prompt_context(e, d, user_id, query, memory_limit, news_limit, up) ==
  LET onboarding_record == _get_onboarding(d["onboarding_context"], user_id, up.onboarding)
      memories == _get_memories(d["user_memories"], user_id, memory_limit, up.memories)
      news_items == LoadNewsItems(e, d["news_hooks"], news_limit, up.news)
      vector_matches == LoadVectorMatches(e, query, user_id, up.search)
      formatted_hits == [i \in 1..Len(vector_matches) |-> FormatHit(vector_matches[i])]
  IN IF IsRaise(onboarding_record) THEN onboarding_record
     ELSE IF IsRaise(memories) THEN memories
     ELSE IF \E i \in 1..Len(formatted_hits) : IsRaise(formatted_hits[i])
     THEN FirstRaise(formatted_hits)
     ELSE LET sections ==
                <<IF Truthy(onboarding_record)
                  THEN build_onboarding_prompt_context(onboarding_record)
                  ELSE NoneFoundText>>
                \o <<build_memory_prompt_section(memories.v)>>
                \o (IF news_limit > 0 THEN <<build_news_prompt_section(news_items)>> ELSE <<>>)
                \o (IF vector_matches # <<>>
                    THEN << <<"Vector search matches:", "\n">>
                            \o JoinWith([i \in 1..Len(formatted_hits) |-> formatted_hits[i].v],
                                        <<"\n">>) >>
                    ELSE <<>>)
              prompt_context == IF sections # <<>> THEN Strip(JoinWith(sections, <<"\n", "\n">>))
                                ELSE <<>>
          IN [t |-> "bundle",
              prompt_context |-> IF prompt_context # <<>> THEN prompt_context ELSE NoContextText,
              onboarding |-> onboarding_record,
              memories |-> memories.v,
              news |-> news_items,
              vector_matches |-> vector_matches]

(***************************************************************************)
(* Bounds and the inputs the environment may supply                        *)
(***************************************************************************)
MaxCalls == 2
MaxBulk == 1
TickSeconds == 300
MaxTicks == 2
MaxItems == 2

SeqsUpTo(S, n) == UNION {[1..k -> S] : k \in 0..n}

TitleKey(parser) == IF parser = "_parse_guardian" THEN "webTitle" ELSE "title"

UrlKey(parser) ==
  CASE parser = "_parse_guardian" -> "webUrl"
    [] parser = "_parse_newsdata" -> "link"
    [] OTHER -> "url"

\* One item of a provider's article list, in the provider's wire format
WireItem(parser, shape) ==
  LET tk == TitleKey(parser)
      uk == UrlKey(parser)
  IN CASE shape = "good1" -> JDict((tk :> JStr(<<"T1">>)) @@ (uk :> JStr(<<"U1">>)))
       [] shape = "good2" -> JDict((tk :> JStr(<<"T2">>)) @@ (uk :> JStr(<<"U2">>)))
       [] shape = "no_title" -> JDict((uk :> JStr(<<"U3">>)))
       [] shape = "no_url" -> JDict((tk :> JStr(<<"T4">>)))
       [] shape = "empty_title" -> JDict((tk :> JStr(<<>>)) @@ (uk :> JStr(<<"U5">>)))
       [] shape = "null_url" -> JDict((tk :> JStr(<<"T6">>)) @@ (uk :> None))
       [] shape = "num_title" -> JDict((tk :> JNum(<<"7">>)) @@ (uk :> JStr(<<"U7">>)))
       [] shape = "not_dict" -> JStr(<<"x">>)

\* The body a provider answers with, around its article list
Envelope(parser, list) ==
  CASE parser = "_parse_fmp" -> list
    [] parser = "_parse_guardian" -> JDict([response |-> JDict([results |-> list])])
    [] parser = "_parse_newsdata" -> JDict([results |-> list])
    [] parser = "_parse_alphavantage" -> JDict([feed |-> list])
    [] OTHER -> JDict([articles |-> list])

\* Decoded bodies: article lists over `shapes`, and the malformed ones
Bodies(parser, shapes, n, malformed) ==
  {Envelope(parser, JList([i \in 1..Len(q) |-> WireItem(parser, q[i])])) : q \in SeqsUpTo(shapes, n)}
  \cup {Envelope(parser, None) : x \in malformed \cap {"null_list"}}
  \cup {EmptyDict : x \in malformed \cap {"no_key"}}
  \cup {JStr(<<"oops">>) : x \in malformed \cap {"not_object"}}

\* What client.get / raise_for_status / response.json() may raise
FetchExceptions == {Raise("ReadTimeout"), Raise("HTTPStatusError"), Raise("JSONDecodeError")}

\* What the chat completion may answer
LlmReplies ==
  { Raise("APIError"),
    ChatCompletion(<<JStr(<<"Brief", " ">>)>>),
    ChatCompletion(<<JStr(<<" ">>)>>) }

KeyVars == {INDUSTRY_CONFIGS[i].api_key_env : i \in 1..Len(INDUSTRY_CONFIGS)} \ {NoApiKeyEnv}

\* Process environments: every key set, GNEWS_API_KEY unset, GNEWS_API_KEY empty
Environments ==
  { [v \in KeyVars |-> <<"key">>],
    [v \in KeyVars \ {"GNEWS_API_KEY"} |-> <<"key">>],
    [v \in KeyVars |-> IF v = "GNEWS_API_KEY" THEN <<>> ELSE <<"key">>] }

CallSlugs == {<<"technology">>, <<"energy">>, <<"__bogus__">>}

BulkInputs ==
  { JStr(<<"technology", ",", "energy">>),
    JStr(<<"energy", ",", " ", "technology", " ", ",", "energy">>),
    JStr(<<"technology", ",", "__bogus__">>),
    JStr(<<" ", ",">>) }

ClientIps == {"10.0.0.1"}

(***************************************************************************)
(* State                                                                   *)
(***************************************************************************)
Tables == {"onboarding_context", "user_memories", "news_hooks"}

NoRows == [table \in Tables |-> <<>>]

VARIABLES
  now,     \* the wall clock, in seconds
  env,     \* os.environ (the API keys)
  client,  \* summary_builder.client is set
  cache,   \* news_service._cache
  store,   \* news_rate_limiter._store
  tasks,   \* the get_industry_news coroutines that have not finished (a bag)
  bulk,    \* the bulk fetch that is waiting in gather, with the results so far
  ncalls,  \* direct calls made so far
  last,    \* history: the step taken last, its input and what it produced
  gets,    \* history: the bag of <<slug, time>> of the GETs issued by non-refresh calls
  okAt     \* history: per slug, for each fetch that completed with success, the
           \* time of its cache write (at) and of its provider response (got)
VARIABLES
  db       \* the row store: the rows of each table, oldest first
VARIABLES
  firstWindow  \* history: per IP, the time of its first check_rate_limit call
               \* and the number of calls admitted within window_seconds of it

vars == <<now, env, client, cache, store, tasks, bulk, ncalls, last, gets, okAt, db, firstWindow>>

Event(op, task, input, response) ==
  [op |-> op, task |-> task, input |-> input, response |-> response]

NoBulk == [t |-> "none", slugs |-> <<>>, responses |-> <<>>]
Pending == [t |-> "pending", v |-> <<>>]

Init ==
  /\ now = 0
  /\ env \in Environments
  /\ client \in BOOLEAN
  /\ cache = <<>>
  /\ store = <<>>
  /\ tasks = EmptyBag
  /\ bulk = NoBulk
  /\ ncalls = 0
  /\ last = Event("init", None, None, None)
  /\ gets = EmptyBag
  /\ okAt = <<>>
  /\ firstWindow = <<>>
  /\ db = NoRows

\* the clock advances
Tick ==
  /\ now + TickSeconds <= MaxTicks * TickSeconds
  /\ now' = now + TickSeconds
  /\ last' = Event("tick", None, None, None)
  /\ UNCHANGED <<env, client, cache, store, tasks, bulk, ncalls, gets, okAt, db, firstWindow>>

\* history of a coroutine's first turn
GetsAfter(tk) ==
  IF tk.called /\ ~tk.refresh_cache THEN gets (+) SetToBag({<<tk.slug, now>>}) ELSE gets

\* await news_service.get_industry_news(slug, refresh_cache) by a direct caller:
\* the coroutine runs at once up to its first suspension
Call(slug, refresh_cache) ==
  /\ ncalls < MaxCalls
  /\ ncalls' = ncalls + 1
  /\ LET tk == Begin(NewTask(0, slug, refresh_cache), cache, env, now) IN
       /\ tasks' = IF tk.pc = "done" THEN tasks ELSE tasks (+) SetToBag({tk})
       /\ last' = Event("start", tk, None, None)
       /\ gets' = GetsAfter(tk)
  /\ UNCHANGED <<now, env, client, cache, store, bulk, okAt, db, firstWindow>>

\* history of a check_rate_limit(ip) call made at time t and answered `allowed`
WindowAfter(w, ip, t, allowed, window_seconds) ==
  IF ip \notin DOMAIN w
  THEN (ip :> [first |-> t, admitted |-> IF allowed THEN 1 ELSE 0]) @@ w
  ELSE IF allowed /\ t < w[ip].first + window_seconds
  THEN [w EXCEPT ![ip].admitted = @ + 1]
  ELSE w

\* GET /api/news/?industries=...: lines 300-312, up to the suspension in gather
BulkFetch(ip, industries, refresh_cache, sameReading) ==
  /\ bulk = NoBulk
  /\ ip \in DOMAIN store => store[ip].count < MaxBulk
  /\ LET rl == check_rate_limit(store, ip, now, sameReading, NewsMaxRequests, NewsWindowSeconds)
         slugs == resolve_slugs(industries)
     IN /\ store' = rl.store
        /\ firstWindow' = WindowAfter(firstWindow, ip, now, rl.allowed, NewsWindowSeconds)
        /\ IF ~rl.allowed
           THEN /\ last' = Event("bulk", None, industries,
                             HTTPException(429, <<"Rate limit exceeded. Please try again later.">>))
                /\ UNCHANGED <<bulk, tasks>>
           ELSE IF IsRaise(slugs)
           THEN /\ last' = Event("bulk", None, industries, slugs)
                /\ UNCHANGED <<bulk, tasks>>
           ELSE /\ last' = Event("bulk", None, industries, None)
                /\ bulk' = [t |-> "bulk", slugs |-> slugs.v,
                            responses |-> [i \in 1..Len(slugs.v) |-> Pending]]
                /\ tasks' = tasks (+) SetToBag({NewTask(i, slugs.v[i], refresh_cache) :
                                                 i \in 1..Len(slugs.v)})
  /\ UNCHANGED <<now, env, client, cache, ncalls, gets, okAt, db>>

\* a coroutine of the bulk fetch gets its first turn on the event loop; gather
\* schedules them in the order of slugs
TaskStart(tk) ==
  /\ tk.pc = "start"
  /\ \A other \in BagToSet(tasks) : other.pc = "start" => other.owner >= tk.owner
  /\ LET nt == Begin(tk, cache, env, now) IN
       /\ tasks' = IF nt.pc = "done" THEN tasks (-) SetToBag({tk})
                   ELSE (tasks (-) SetToBag({tk})) (+) SetToBag({nt})
       /\ bulk' = IF nt.pc = "done" THEN [bulk EXCEPT !.responses[tk.owner] = nt.result]
                  ELSE bulk
       /\ last' = Event("start", nt, None, None)
       /\ gets' = GetsAfter(nt)
  /\ UNCHANGED <<now, env, client, cache, store, ncalls, okAt, db, firstWindow>>

WritesOk(slug) == IF slug \in DOMAIN okAt THEN okAt[slug] ELSE <<>>

TimesOk(slug) == [i \in 1..Len(WritesOk(slug)) |-> WritesOk(slug)[i].at]

GotTimes(slug) == [i \in 1..Len(WritesOk(slug)) |-> WritesOk(slug)[i].got]

\* a suspended coroutine `tk` has taken a step that left `step`
Resumed(tk, step) ==
  /\ cache' = step.cache
  /\ tasks' = IF step.task.pc = "done" THEN tasks (-) SetToBag({tk})
              ELSE (tasks (-) SetToBag({tk})) (+) SetToBag({step.task})
  /\ bulk' = IF step.task.pc = "done" /\ tk.owner # 0
             THEN [bulk EXCEPT !.responses[tk.owner] = step.task.result]
             ELSE bulk
  /\ okAt' = IF step.task.pc = "done" /\ IsResponse(step.task.result)
             THEN (step.task.result.slug :>
                     Append(WritesOk(step.task.result.slug),
                            [at |-> now, got |-> step.task.got])) @@ okAt
             ELSE okAt

\* the outbound GET of a coroutine ends
HttpDone(tk, outcome) ==
  /\ tk.pc = "http"
  /\ LET step == AfterHttp(tk, cache, client, now, outcome) IN
       /\ Resumed(tk, step)
       /\ last' = Event("http", step.task, outcome, None)
  /\ UNCHANGED <<now, env, client, store, ncalls, gets, db, firstWindow>>

\* history: the step of a coroutine whose GET has returned at time t
Stamped(step, t) == [step EXCEPT !.task.got = t]

\* HttpDone, with the time of the provider's response kept in the coroutine
HttpDoneAt(tk, outcome) ==
  /\ tk.pc = "http"
  /\ LET step == Stamped(AfterHttp(tk, cache, client, now, outcome), now) IN
       /\ Resumed(tk, step)
       /\ last' = Event("http", step.task, outcome, None)
  /\ UNCHANGED <<now, env, client, store, ncalls, gets, db, firstWindow>>

\* the thread-pool call of the summary builder ends
LlmDone(tk, reply) ==
  /\ tk.pc = "llm"
  /\ LET step == AfterLlm(tk, cache, now, reply) IN
       /\ Resumed(tk, step)
       /\ last' = Event("llm", step.task, reply, None)
  /\ UNCHANGED <<now, env, client, store, ncalls, gets, db, firstWindow>>

\* gather has every result: lines 314-337
BulkDone ==
  /\ bulk # NoBulk
  /\ \A i \in 1..Len(bulk.responses) : bulk.responses[i] # Pending
  /\ last' = Event("gathered", None, bulk, Aggregate(bulk.slugs, bulk.responses))
  /\ bulk' = NoBulk
  /\ UNCHANGED <<now, env, client, cache, store, tasks, ncalls, gets, okAt, db, firstWindow>>

ParserOf(tk) == _get_config(tk.slug).parser

\* the bodies and exceptions a GET of `tk` may end with
SmallOutcomes(tk) ==
  FetchExceptions
  \cup { Envelope(ParserOf(tk), JList(<<WireItem(ParserOf(tk), "good1")>>)),
         Envelope(ParserOf(tk), JList(<<WireItem(ParserOf(tk), "no_url")>>)),
         EmptyDict }

\* Direct callers of the service
Next ==
  \/ Tick
  \/ \E slug \in CallSlugs, refresh_cache \in BOOLEAN : Call(slug, refresh_cache)
  \/ \E tk \in BagToSet(tasks) : \E outcome \in SmallOutcomes(tk) : HttpDone(tk, outcome)
  \/ \E tk \in BagToSet(tasks) : \E reply \in LlmReplies : LlmDone(tk, reply)

Spec == Init /\ [][Next]_vars

\* Direct callers of the service, with the response times kept
NextRace ==
  \/ Tick
  \/ \E slug \in CallSlugs, refresh_cache \in BOOLEAN : Call(slug, refresh_cache)
  \/ \E tk \in BagToSet(tasks) : \E outcome \in SmallOutcomes(tk) : HttpDoneAt(tk, outcome)
  \/ \E tk \in BagToSet(tasks) : \E reply \in LlmReplies : LlmDone(tk, reply)

SpecRace == Init /\ [][NextRace]_vars

\* The bulk endpoint
NextBulk ==
  \/ Tick
  \/ \E ip \in ClientIps, industries \in BulkInputs, refresh_cache \in BOOLEAN,
        sameReading \in BOOLEAN :
       BulkFetch(ip, industries, refresh_cache, sameReading)
  \/ \E tk \in BagToSet(tasks) : TaskStart(tk)
  \/ \E tk \in BagToSet(tasks) : \E outcome \in SmallOutcomes(tk) : HttpDone(tk, outcome)
  \/ \E tk \in BagToSet(tasks) : \E reply \in LlmReplies : LlmDone(tk, reply)
  \/ BulkDone

SpecBulk == Init /\ [][NextBulk]_vars

\* One fetch per configured provider, against every outcome of the GET
AllShapes ==
  {"good1", "good2", "no_title", "no_url", "empty_title", "null_url", "num_title", "not_dict"}

Malformed == {"null_list", "no_key", "not_object"}

AllKeysSet == [v \in KeyVars |-> <<"key">>]

AllOutcomes(tk) ==
  {Raise(e) : e \in HTTPErrors \cup {"JSONDecodeError"}}
  \cup Bodies(ParserOf(tk), AllShapes, MaxItems, Malformed)

\* a first non-refresh call for a configured slug has just been made
InitFetch ==
  /\ now = 0
  /\ env = AllKeysSet
  /\ client \in BOOLEAN
  /\ cache = <<>>
  /\ store = <<>>
  /\ bulk = NoBulk
  /\ ncalls = 1
  /\ okAt = <<>>
  /\ firstWindow = <<>>
  /\ db = NoRows
  /\ \E i \in 1..Len(ConfigSlugs) :
       LET tk == Begin(NewTask(0, <<ConfigSlugs[i]>>, FALSE), <<>>, AllKeysSet, 0) IN
         /\ tasks = SetToBag({tk})
         /\ last = Event("start", tk, None, None)
         /\ gets = SetToBag({<<tk.slug, 0>>})

NextFetch ==
  \/ \E tk \in BagToSet(tasks) : \E outcome \in AllOutcomes(tk) : HttpDone(tk, outcome)
  \/ \E tk \in BagToSet(tasks) : \E reply \in LlmReplies : LlmDone(tk, reply)

SpecFetch == InitFetch /\ [][NextFetch]_vars

(***************************************************************************)
(* Vocabulary of the properties.  After a step of a coroutine, last.task   *)
(* is that coroutine as the step left it and last.input what the step      *)
(* consumed; a first turn ("start") changes neither the cache nor the      *)
(* clock, so after it `cache` and `now` are the ones the call has seen.    *)
(***************************************************************************)
Configured(tk) == ~IsRaise(_get_config(tk.slug))
Key(tk) == tk.slug[1]
HasEntry(k) == k \in DOMAIN cache
Age(k) == now - cache[k].timestamp
Returned(tk) == tk.pc = "done" /\ IsResponse(tk.result)
Fails(tk, status_code) ==
  tk.pc = "done" /\ IsHTTPException(tk.result) /\ tk.result.status_code = status_code
FetchIssued(tk) == tk.pc = "http" /\ tk.called
KeyAvailable(k) ==
  LET config == ConfigsGet(k) IN
    config.requires_api_key =>
      (config.api_key_env \in DOMAIN env /\ env[config.api_key_env] # <<>>)
NonRefreshStart == last.op = "start" /\ Configured(last.task) /\ ~last.task.refresh_cache
RefreshStart == last.op = "start" /\ Configured(last.task) /\ last.task.refresh_cache
Mentions(detail, word) == \E i \in 1..Len(detail) : detail[i] = word

\* C1: a non-refresh call for a configured slug returns the cached payload,
\* with no outbound GET and without reaching the summary builder, exactly
\* when the slug has an entry with now - timestamp <= ttl (boundary
\* included); otherwise it goes on to the fetch: the GET is issued, or the
\* key check of the fetch path fails the call.
C1_HitIffFresh ==
  NonRefreshStart =>
    LET tk == last.task
        k == Key(last.task)
    IN IF HasEntry(k) /\ Age(k) <= CacheTtl
       THEN tk.pc = "done" /\ tk.result = cache[k].payload /\ ~tk.called
       ELSE FetchIssued(tk) \/ (Fails(tk, 503) /\ ~tk.called)

C1_HitAtBoundary ==
  /\ NonRefreshStart
  /\ Returned(last.task)
  /\ ~last.task.called
  /\ HasEntry(Key(last.task))
  /\ Age(Key(last.task)) = CacheTtl

\* C2 as stated: any two non-refresh calls for one slug made within the TTL
\* window issue at most one outbound GET between them.
C2_TwoReadsOneGet ==
  \A g, h \in BagToSet(gets) :
    (g[1] = h[1] /\ g[2] <= h[2] /\ h[2] - g[2] <= CacheTtl) =>
      (g = h /\ CopiesIn(g, gets) = 1)

\* C2 amended: once a fetch of the slug has completed with success, a
\* non-refresh call for that slug that starts no later than ttl after that
\* completion issues no outbound GET.
C2_NoGetWithinTtlOfSuccess ==
  NonRefreshStart =>
    LET k == Key(last.task) IN
      (TimesOk(k) # <<>> /\ now - TimesOk(k)[Len(TimesOk(k))] <= CacheTtl) =>
        (~last.task.called /\ Returned(last.task))

C2_SecondReadServedFromCache ==
  /\ NonRefreshStart
  /\ ~last.task.called
  /\ Returned(last.task)
  /\ TimesOk(Key(last.task)) # <<>>
  /\ \E g \in BagToSet(gets) :
       g[1] = last.task.slug /\ g[2] < now /\ now - g[2] <= CacheTtl

\* C3 as stated: a refresh call for a configured slug always issues a new
\* outbound GET.
C3_RefreshAlwaysFetches == RefreshStart => last.task.called

\* C3 amended: a refresh call for a configured slug whose provider needs no
\* API key, or whose key is set and not empty, issues a new outbound GET
\* whatever the cache holds for the slug; and when a refresh call succeeds
\* the slug's entry is the new payload with the time of the write.
C3_RefreshFetchesWhenKeyAvailable ==
  /\ (RefreshStart /\ KeyAvailable(Key(last.task))) => FetchIssued(last.task)
  /\ (last.op \in {"http", "llm"} /\ last.task.refresh_cache /\ Returned(last.task)) =>
       (HasEntry(Key(last.task))
        /\ cache[Key(last.task)] = CacheEntry(now, last.task.result))

C3_RefreshBypassesFreshEntry ==
  /\ RefreshStart
  /\ FetchIssued(last.task)
  /\ HasEntry(Key(last.task))
  /\ Age(Key(last.task)) <= CacheTtl

\* C4: a step in which a call fails leaves the whole cache as it was, and
\* the cache changes only in the step that ends a call with a response
\* (fetch, parse, filter and summary all done), and then only in the entry
\* of that call's slug.
C4_AllOrNothing ==
  [][ /\ (last'.op \in {"start", "http", "llm"} /\ ~Returned(last'.task)) => cache' = cache
      /\ cache' # cache =>
           /\ last'.op \in {"http", "llm"}
           /\ Returned(last'.task)
           /\ DOMAIN cache' = DOMAIN cache \cup {Key(last'.task)}
           /\ \A k \in DOMAIN cache : k # Key(last'.task) => cache'[k] = cache[k]
    ]_vars

C4_FailureBesideAnEntry ==
  /\ last.op = "http"
  /\ last.task.pc = "done"
  /\ IsRaise(last.task.result)
  /\ HasEntry(Key(last.task))
  /\ cache[Key(last.task)].timestamp < now

\* C5: while a slug's entry is present and older than ttl, a non-refresh
\* call for the slug never returns from the cache but issues the GET; and
\* when that GET ends in an exception the call raises (504 / 502 for an
\* httpx timeout / HTTP error) instead of returning the old payload, and the
\* entry is left as it was.
C5_NoServeStale ==
  [][ \A k \in DOMAIN cache :
        ( /\ now - cache[k].timestamp > CacheTtl
          /\ last'.op \in {"start", "http"}
          /\ last'.task.slug = <<k>>
          /\ ~last'.task.refresh_cache ) =>
          /\ last'.op = "start" => FetchIssued(last'.task)
          /\ (last'.op = "http" /\ IsRaise(last'.input)) =>
               /\ last'.task.pc = "done"
               /\ IsRaise(last'.task.result)
               /\ last'.input.v = "ReadTimeout" => Fails(last'.task, 504)
               /\ last'.input.v = "HTTPStatusError" => Fails(last'.task, 502)
               /\ k \in DOMAIN cache'
               /\ cache'[k] = cache[k]
    ]_vars

C5_RefetchOfStaleEntryFailed ==
  /\ last.op = "http"
  /\ ~last.task.refresh_cache
  /\ IsRaise(last.input)
  /\ Fails(last.task, 504)
  /\ HasEntry(Key(last.task))
  /\ Age(Key(last.task)) > CacheTtl
  /\ \E g \in BagToSet(gets) :
       g[1] = last.task.slug /\ g[2] - cache[Key(last.task)].timestamp > CacheTtl

EntryState(c, k, t) ==
  IF k \notin DOMAIN c THEN "Absent"
  ELSE IF t - c[k].timestamp <= CacheTtl THEN "Fresh" ELSE "Stale"

\* C6: per slug the entry moves only Absent -> Fresh -> Stale -> Fresh: an
\* entry never disappears, it leaves Absent or changes only by the write of
\* a successful fetch of that slug, which replaces it as a whole (payload
\* and timestamp), and it turns Stale only by the passing of time.
C6_EntryLifecycle ==
  [][ \A k \in DOMAIN cache \cup DOMAIN cache' :
        LET before == EntryState(cache, k, now)
            after == EntryState(cache', k, now')
            written == /\ last'.op \in {"http", "llm"}
                       /\ Returned(last'.task)
                       /\ last'.task.result.slug = k
        IN /\ <<before, after>> \in
                {<<"Absent", "Absent">>, <<"Absent", "Fresh">>, <<"Fresh", "Fresh">>,
                 <<"Fresh", "Stale">>, <<"Stale", "Stale">>, <<"Stale", "Fresh">>}
           /\ (before = "Absent" /\ after = "Fresh") => written
           /\ (before = "Stale" /\ after = "Fresh") => written
           /\ (before = "Fresh" /\ after = "Stale") => (now' > now /\ cache'[k] = cache[k])
           /\ (before # "Absent" /\ cache'[k] # cache[k]) => written
           /\ written => cache'[k] = CacheEntry(now', last'.task.result)
    ]_vars

C6_StaleEntryOverwritten ==
  /\ last.op \in {"http", "llm"}
  /\ Returned(last.task)
  /\ Len(TimesOk(Key(last.task))) = 2
  /\ TimesOk(Key(last.task))[2] - TimesOk(Key(last.task))[1] > CacheTtl
  /\ cache[Key(last.task)].timestamp = TimesOk(Key(last.task))[2]

\* C7: when a call for a configured slug needs a fetch (refresh asked, or no
\* entry that is still valid) and the provider requires an API key whose
\* environment variable is unset or empty, the call fails with 503 and no
\* outbound GET is issued.
C7_MissingKeyFails503 ==
  ( /\ last.op = "start"
    /\ Configured(last.task)
    /\ ~KeyAvailable(Key(last.task))
    /\ (last.task.refresh_cache
        \/ ~(HasEntry(Key(last.task)) /\ Age(Key(last.task)) <= CacheTtl)) ) =>
    (Fails(last.task, 503) /\ ~last.task.called)

C7_EmptyKeyRefused ==
  /\ last.op = "start"
  /\ last.task.slug = <<"technology">>
  /\ "GNEWS_API_KEY" \in DOMAIN env
  /\ env["GNEWS_API_KEY"] = <<>>
  /\ Fails(last.task, 503)
  /\ ~last.task.called

\* C8: a GET that ends in an httpx timeout fails the call with 504, one that
\* ends in any other httpx HTTP-layer error (a non-2xx status included)
\* fails it with 502, never the other way round, and the detail names the
\* provider and carries the text of the error.
C8_TimeoutIs504OtherIs502 ==
  (last.op = "http" /\ IsRaise(last.input)) =>
    LET tk == last.task
        provider == ConfigsGet(Key(last.task)).provider
    IN /\ last.input.v \in {"ConnectTimeout", "ReadTimeout", "WriteTimeout", "PoolTimeout"} =>
            /\ Fails(tk, 504)
            /\ Mentions(tk.result.detail, provider)
            /\ Mentions(tk.result.detail, last.input.v)
       /\ last.input.v \in {"ConnectError", "ReadError", "RemoteProtocolError",
                            "HTTPStatusError"} =>
            /\ Fails(tk, 502)
            /\ Mentions(tk.result.detail, provider)
            /\ Mentions(tk.result.detail, last.input.v)

C8_TimeoutMappedTo504 ==
  /\ last.op = "http"
  /\ IsRaise(last.input)
  /\ last.input.v = "ReadTimeout"
  /\ Fails(last.task, 504)
  /\ Mentions(last.task.result.detail, "GNews")

NonEmptyText(x) == x.t = "str" /\ x.v # <<>>
Complete(item) == NonEmptyText(item.v.title) /\ NonEmptyText(item.v.url)
ItemFields(item) == <<item.v.title, item.v.description, item.v.url, item.v.source>>
ArticleFields(a) == <<a.title, a.description, a.url, a.source>>
AllComplete(articles) ==
  \A i \in 1..Len(articles) : NonEmptyText(articles[i].title) /\ NonEmptyText(articles[i].url)

\* C9: for every configured provider's parser, the articles a call goes on
\* with after the GET are exactly the parser's output items whose title and
\* url are both non-empty, in the parser's order; and no article of a
\* response or of a cached payload lacks a title or a url.
C9_ArticlesAreTheCompleteItems ==
  /\ ( /\ last.op = "http"
       /\ ~IsRaise(last.input)
       /\ (last.task.pc = "llm" \/ Returned(last.task)) ) =>
       LET items == Parse(ParserOf(last.task), last.input).v
           kept == SelectSeq(items, Complete)
           articles == IF last.task.pc = "llm" THEN last.task.articles
                       ELSE last.task.result.articles
       IN [i \in 1..Len(articles) |-> ArticleFields(articles[i])]
            = [i \in 1..Len(kept) |-> ItemFields(kept[i])]
  /\ (last.op \in {"http", "llm"} /\ Returned(last.task)) =>
       AllComplete(last.task.result.articles)
  /\ \A k \in DOMAIN cache : AllComplete(cache[k].payload.articles)

C9_IncompleteItemDropped ==
  /\ last.op = "http"
  /\ ~IsRaise(last.input)
  /\ Returned(last.task)
  /\ Len(Parse(ParserOf(last.task), last.input).v) = 2
  /\ Len(last.task.result.articles) = 1
  /\ cache[Key(last.task)].payload = last.task.result

\* C10: in a bulk fetch the failure of one slug's call changes no other
\* slug's call (the others stay in flight as they were and their captured
\* outcomes stay), and every slug whose own call returned a response is in
\* results and has its cache entry.
C10_BulkOutcomesIndependent ==
  /\ []( last.op = "gathered" =>
           \A i \in 1..Len(last.input.slugs) :
             IsResponse(last.input.responses[i]) =>
               /\ last.response.t = "BulkIndustryNewsResponse"
               /\ \E j \in 1..Len(last.response.results) :
                    last.response.results[j] = last.input.responses[i]
               /\ last.input.responses[i].slug \in DOMAIN cache )
  /\ [][ ( /\ last'.op \in {"start", "http", "llm"}
           /\ last'.task.pc = "done"
           /\ IsRaise(last'.task.result) ) =>
           /\ \A other \in BagToSet(tasks) :
                other.owner # last'.task.owner =>
                  CopiesIn(other, tasks') = CopiesIn(other, tasks)
           /\ \A i \in 1..Len(bulk.responses) :
                i # last'.task.owner => bulk'.responses[i] = bulk.responses[i]
           /\ bulk'.responses[last'.task.owner] = last'.task.result
       ]_vars

C10_OneTimedOutOneReturned ==
  /\ last.op = "gathered"
  /\ last.response.t = "BulkIndustryNewsResponse"
  /\ Len(last.response.results) = 1
  /\ Len(last.response.errors) = 1
  /\ last.response.errors[1].status_code = 504
  /\ last.response.results[1].slug \in DOMAIN cache

Gathered == last.op = "gathered" /\ last.input.slugs # <<>>
OkSlots == {i \in 1..Len(last.input.slugs) : IsResponse(last.input.responses[i])}
BadSlots == {i \in 1..Len(last.input.slugs) : ~IsResponse(last.input.responses[i])}
ErrorsOf(answer) ==
  IF IsHTTPException(answer) THEN answer.detail.errors ELSE answer.errors
IsErrorOf(rec, i) ==
  /\ DOMAIN rec = {"slug", "status_code", "detail"}
  /\ rec.slug = last.input.slugs[i]
  /\ rec.status_code = IF IsHTTPException(last.input.responses[i])
                       THEN last.input.responses[i].status_code ELSE 500
  /\ IsHTTPException(last.input.responses[i]) => rec.detail = last.input.responses[i].detail

\* C11: a bulk fetch over a non-empty slug list raises 503 with the full
\* error list exactly when every per-slug call failed; with at least one
\* success it returns the successes in results, and in both cases there is
\* one error record {slug, status_code, detail} per failed slug.
C11_Bulk503IffAllFailed ==
  Gathered =>
    /\ Fails([pc |-> "done", result |-> last.response], 503) <=> OkSlots = {}
    /\ OkSlots # {} =>
         /\ last.response.t = "BulkIndustryNewsResponse"
         /\ Len(last.response.results) = Cardinality(OkSlots)
         /\ \A i \in OkSlots : \E j \in 1..Len(last.response.results) :
              last.response.results[j] = last.input.responses[i]
    /\ OkSlots = {} => IsHTTPException(last.response)
    /\ Len(ErrorsOf(last.response)) = Cardinality(BadSlots)
    /\ \A i \in BadSlots : \E j \in 1..Len(ErrorsOf(last.response)) :
         IsErrorOf(ErrorsOf(last.response)[j], i)

C11_AllFailedIs503 ==
  /\ Gathered
  /\ Len(last.input.slugs) = 2
  /\ OkSlots = {}
  /\ IsHTTPException(last.response)
  /\ last.response.status_code = 503
  /\ Len(last.response.detail.errors) = 2

\* the entries of a requested list: its comma-separated parts, trimmed
Entries(requested) ==
  LET parts == Split(requested.v, ",") IN
    SelectSeq([i \in 1..Len(parts) |-> Strip(parts[i])], NonEmptyStr)
IsKnownSlug(slug) == \E i \in 1..Len(ConfigSlugs) : slug = <<ConfigSlugs[i]>>
HasUnknownSlug(requested) ==
  /\ requested.t = "str"
  /\ \E i \in 1..Len(Entries(requested)) : ~IsKnownSlug(Entries(requested)[i])
Answered(answer, status_code) ==
  IsHTTPException(answer) /\ answer.status_code = status_code

\* C12: a bulk request (admitted by the rate limiter) whose list names an
\* unknown slug fails as a whole with 404 in the step that receives it: no
\* get_industry_news coroutine is created for any slug, so no GET is issued,
\* and the cache is as it was.
C12_UnknownSlugFailsBulkEagerly ==
  [][ ( /\ last'.op = "bulk"
        /\ HasUnknownSlug(last'.input)
        /\ ~Answered(last'.response, 429) ) =>
        /\ Answered(last'.response, 404)
        /\ tasks' = tasks
        /\ bulk' = bulk
        /\ gets' = gets
        /\ cache' = cache
    ]_vars

C12_KnownThenUnknownIs404 ==
  /\ last.op = "bulk"
  /\ HasUnknownSlug(last.input)
  /\ IsKnownSlug(Entries(last.input)[1])
  /\ Answered(last.response, 404)
  /\ tasks = EmptyBag
  /\ gets = EmptyBag
  /\ cache = <<>>

\* where a slug stands in the resolved list of the gather
PlaceOf(slug) == CHOOSE i \in 1..Len(last.input.slugs) : last.input.slugs[i] = slug
Ascending(places) == \A i, j \in 1..Len(places) : i < j => places[i] < places[j]

\* C13: in the answer of a bulk fetch the successes, and the error records,
\* stand in the order of the resolved slug list, whatever the order in
\* which the per-slug calls completed.
C13_BulkOrderFollowsSlugs ==
  Gathered =>
    /\ last.response.t = "BulkIndustryNewsResponse" =>
         Ascending([j \in 1..Len(last.response.results) |->
                      PlaceOf(<<last.response.results[j].slug>>)])
    /\ Ascending([j \in 1..Len(ErrorsOf(last.response)) |->
                    PlaceOf(ErrorsOf(last.response)[j].slug)])

C13_SecondSlugCompletedFirst ==
  /\ Gathered
  /\ last.response.t = "BulkIndustryNewsResponse"
  /\ Len(last.response.results) = 2
  /\ last.input.slugs = <<<<last.response.results[1].slug>>, <<last.response.results[2].slug>>>>
  /\ TimesOk(last.response.results[2].slug)[1] < TimesOk(last.response.results[1].slug)[1]

(***************************************************************************)
(* resolve_slugs on requested lists                                        *)
(***************************************************************************)
MaxTokens == 5

ResolveTokens == {"finance", "technology", "__bogus__", ",", " "}

ResolveInputs == {None} \cup {JStr(q) : q \in SeqsUpTo(ResolveTokens, MaxTokens)}

\* a caller holds the requested list
InitResolve ==
  /\ now = 0
  /\ env = AllKeysSet
  /\ client = FALSE
  /\ cache = <<>>
  /\ store = <<>>
  /\ tasks = EmptyBag
  /\ bulk = NoBulk
  /\ ncalls = 0
  /\ gets = EmptyBag
  /\ okAt = <<>>
  /\ firstWindow = <<>>
  /\ db = NoRows
  /\ \E requested \in ResolveInputs : last = Event("requested", None, requested, None)

\* news_service.resolve_slugs(requested)
Resolve ==
  /\ last.op = "requested"
  /\ last' = Event("resolve", None, last.input, resolve_slugs(last.input))
  /\ UNCHANGED <<now, env, client, cache, store, tasks, bulk, ncalls, gets, okAt, db, firstWindow>>

NextResolve == Resolve

SpecResolve == InitResolve /\ [][NextResolve]_vars

FirstAt(q, x) == CHOOSE i \in 1..Len(q) : q[i] = x /\ \A j \in 1..(i - 1) : q[j] # x
Members(q) == {q[i] : i \in 1..Len(q)}

\* C14: resolve_slugs(None) is the configured slugs in registry order,
\* without duplicates; for a comma-separated list whose trimmed entries are
\* all known it is those entries without duplicates, each at the place of
\* its first occurrence ("finance,finance,technology" gives finance,
\* technology).
C14_ResolveOrderedDeduplicated ==
  last.op = "resolve" =>
    /\ last.input = None =>
         last.response = JList(<< <<"technology">>, <<"finance">>, <<"healthcare">>,
                                  <<"energy">>, <<"retail">>, <<"transportation">> >>)
    /\ ( /\ last.input.t = "str"
         /\ Entries(last.input) # <<>>
         /\ ~HasUnknownSlug(last.input) ) =>
         /\ last.response.t = "list"
         /\ Members(last.response.v) = Members(Entries(last.input))
         /\ Cardinality(Members(last.response.v)) = Len(last.response.v)
         /\ \A i, j \in 1..Len(last.response.v) :
              i < j => FirstAt(Entries(last.input), last.response.v[i])
                         < FirstAt(Entries(last.input), last.response.v[j])
    /\ last.input = JStr(<<"finance", ",", "finance", ",", "technology">>) =>
         last.response = JList(<< <<"finance">>, <<"technology">> >>)

C14_DuplicateRemoved ==
  /\ last.op = "resolve"
  /\ last.input = JStr(<<"finance", ",", "finance", ",", "technology">>)
  /\ last.response = JList(<< <<"finance">>, <<"technology">> >>)

\* C15: resolve_slugs raises 400, and returns no list, whenever requested is
\* a non-empty string made of commas and whitespace only, so that no entry
\* is left after splitting and trimming.
C15_NoEntriesIs400 ==
  ( /\ last.op = "resolve"
    /\ last.input.t = "str"
    /\ last.input.v # <<>>
    /\ \A i \in 1..Len(last.input.v) : last.input.v[i] \in {",", " "} ) =>
    (Answered(last.response, 400) /\ last.response.t # "list")

C15_BlankBetweenCommasIs400 ==
  /\ last.op = "resolve"
  /\ last.input = JStr(<<" ", ",", " ">>)
  /\ Answered(last.response, 400)

(***************************************************************************)
(* build_summary on article lists                                          *)
(***************************************************************************)
MaxArticles == 6

SummaryTitles == {<<>>, <<"A">>, <<"B">>}

TitledArticle(title) ==
  [t |-> "Article", title |-> JStr(title), description |-> None, url |-> JStr(<<"U">>),
   published_at |-> None, source |-> None]

SummaryReplies ==
  { Raise("APIError"),
    ChatCompletion(<<>>),
    ChatCompletion(<<None>>),
    ChatCompletion(<<JStr(<<>>)>>),
    ChatCompletion(<<JStr(<<" ">>)>>),
    ChatCompletion(<<JStr(<<"Brief", " ">>)>>) }

\* a caller holds the article list; reply is what the completion call will
\* end with if it is made
InitSummary ==
  /\ now = 0
  /\ env = AllKeysSet
  /\ client \in BOOLEAN
  /\ cache = <<>>
  /\ store = <<>>
  /\ tasks = EmptyBag
  /\ bulk = NoBulk
  /\ ncalls = 0
  /\ gets = EmptyBag
  /\ okAt = <<>>
  /\ firstWindow = <<>>
  /\ db = NoRows
  /\ \E titles \in SeqsUpTo(SummaryTitles, MaxArticles), reply \in SummaryReplies :
       last = Event("articles", None,
                    [articles |-> [i \in 1..Len(titles) |-> TitledArticle(titles[i])],
                     reply |-> reply],
                    None)

\* summary_builder.build_summary("Technology", "GNews", articles)
BuildSummary ==
  /\ last.op = "articles"
  /\ last' = Event("summary", None, last.input,
                   JStr(build_summary("Technology", "GNews", last.input.articles, client,
                                      last.input.reply)))
  /\ UNCHANGED <<now, env, client, cache, store, tasks, bulk, ncalls, gets, okAt, db, firstWindow>>

NextSummary == BuildSummary

SpecSummary == InitSummary /\ [][NextSummary]_vars

\* C16 as stated: build_summary returns a non-empty string for every article
\* list and every LLM situation.
C16_SummaryNeverEmpty ==
  last.op = "summary" => (last.response.t = "str" /\ last.response.v # <<>>)

HasNonEmptyTitle(a) == a.title.v # <<>>
LlmUnusable ==
  \/ ~client
  \/ IsRaise(last.input.reply)
  \/ last.input.reply.choices = <<>>
  \/ last.input.reply.choices[1].t = "null"
  \/ \A i \in 1..Len(last.input.reply.choices[1].v) :
       last.input.reply.choices[1].v[i] \in {" ", "\n", "\t"}

\* C17 as stated: with at least one article of non-empty title and the LLM
\* unusable (no client, the call raises, no or empty or whitespace-only
\* content), build_summary returns "{industry} snapshot: " followed by the
\* first up-to-5 non-empty titles joined by "; ".
C17_FallbackIsTopHeadlines ==
  ( /\ last.op = "summary"
    /\ SelectSeq(last.input.articles, HasNonEmptyTitle) # <<>>
    /\ LlmUnusable ) =>
    LET titled == SelectSeq(last.input.articles, HasNonEmptyTitle)
        n == IF Len(titled) < 5 THEN Len(titled) ELSE 5
    IN last.response.v
         = <<"Technology", " snapshot: ">> \o Join([i \in 1..n |-> titled[i].title.v], "; ")

\* C18 as stated: once the body of the GET has been fetched and decoded, no
\* parser or summarizer failure ends get_industry_news: the call returns a
\* response, its only failures being the typed 404 / 503 / 504 / 502.
C18_FetchedBodyNeverFailsTheCall ==
  ( /\ last.op \in {"http", "llm"}
    /\ ~IsRaise(last.input)
    /\ last.task.pc = "done" ) =>
    \/ IsResponse(last.task.result)
    \/ /\ IsHTTPException(last.task.result)
       /\ last.task.result.status_code \in {404, 503, 504, 502}

(***************************************************************************)
(* list_industries beside a call in flight                                 *)
(***************************************************************************)
\* every environment: each key variable unset, empty or set
AllEnvironments == UNION {[D -> {<<>>, <<"key">>}] : D \in SUBSET KeyVars}

\* a first call for energy (no key needed) has just been made
InitList ==
  /\ now = 0
  /\ env \in AllEnvironments
  /\ client \in BOOLEAN
  /\ cache = <<>>
  /\ store = <<>>
  /\ bulk = NoBulk
  /\ ncalls = 1
  /\ okAt = <<>>
  /\ firstWindow = <<>>
  /\ db = NoRows
  /\ LET tk == Begin(NewTask(0, <<"energy">>, FALSE), <<>>, env, 0) IN
       /\ tasks = SetToBag({tk})
       /\ last = Event("start", tk, None, None)
       /\ gets = SetToBag({<<tk.slug, 0>>})

\* news_service.list_industries()
ListIndustries ==
  /\ last' = Event("list", None, None, JList(list_industries(env)))
  /\ UNCHANGED <<now, env, client, cache, store, tasks, bulk, ncalls, gets, okAt, db, firstWindow>>

NextList ==
  \/ ListIndustries
  \/ \E tk \in BagToSet(tasks) : \E outcome \in SmallOutcomes(tk) : HttpDone(tk, outcome)
  \/ \E tk \in BagToSet(tasks) : \E reply \in LlmReplies : LlmDone(tk, reply)

SpecList == InitList /\ [][NextList]_vars

\* C19: list_industries reports, for every config of the registry,
\* is_configured = true exactly when the config requires no API key or its
\* environment variable is set and not empty; and the step makes no call
\* and leaves the cache as it was.
C19_IsConfiguredIffKeyUsable ==
  /\ []( last.op = "list" =>
           /\ Len(last.response.v) = Len(INDUSTRY_CONFIGS)
           /\ \A i \in 1..Len(INDUSTRY_CONFIGS) :
                /\ last.response.v[i].slug = INDUSTRY_CONFIGS[i].slug
                /\ last.response.v[i].is_configured
                     <=> \/ ~INDUSTRY_CONFIGS[i].requires_api_key
                         \/ /\ INDUSTRY_CONFIGS[i].api_key_env \in DOMAIN env
                            /\ env[INDUSTRY_CONFIGS[i].api_key_env] # <<>> )
  /\ [][ last'.op = "list" => (cache' = cache /\ tasks' = tasks /\ gets' = gets) ]_vars

C19_EmptyKeyNotConfigured ==
  /\ last.op = "list"
  /\ "GNEWS_API_KEY" \in DOMAIN env
  /\ env["GNEWS_API_KEY"] = <<>>
  /\ "NEWSAPI_KEY" \notin DOMAIN env
  /\ ~last.response.v[1].is_configured
  /\ last.response.v[2].is_configured
  /\ last.response.v[4].is_configured
  /\ ~last.response.v[6].is_configured
  /\ "energy" \in DOMAIN cache

\* C20: no cache write is rejected: every call that returns a fetched
\* response leaves its payload and the time of its write in the slug's
\* entry, whatever entry was there, so after overlapping fetches each entry
\* is that of the call that wrote last.
C20_LastWriterWins ==
  /\ (last.op \in {"http", "llm"} /\ Returned(last.task)) =>
       cache[Key(last.task)] = CacheEntry(now, last.task.result)
  /\ DOMAIN cache = DOMAIN okAt
  /\ \A k \in DOMAIN cache : cache[k].timestamp = TimesOk(k)[Len(TimesOk(k))]

C20_OverlappingFetchesBothWrote ==
  /\ last.op \in {"http", "llm"}
  /\ Returned(last.task)
  /\ CopiesIn(<<last.task.slug, 0>>, gets) = 2
  /\ Len(TimesOk(Key(last.task))) = 2
  /\ TimesOk(Key(last.task))[1] < TimesOk(Key(last.task))[2]
  /\ cache[Key(last.task)] = CacheEntry(TimesOk(Key(last.task))[2], last.task.result)

\* C21: a refresh only improves freshness: in the order of the cache writes
\* for a slug, the provider responses behind the written payloads were
\* obtained in the same order, so no write puts a payload in the entry whose
\* response is older than that of the payload it replaces, and no entry
\* carries a later timestamp for older provider data.
C21_RefreshOnlyImprovesFreshness ==
  \A k \in DOMAIN okAt :
    \A i, j \in 1..Len(WritesOk(k)) :
      i < j => GotTimes(k)[i] <= GotTimes(k)[j]

(***************************************************************************)
(* build_prompt_context on row stores, arguments and upstream outcomes     *)
(***************************************************************************)
MaxMemoryRows == 2
MaxNewsRows == 2

ContextUser == <<"u1">>

\* rows of onboarding_context
OnboardingRow(user_id) ==
  JDict([user_id |-> JStr(user_id), name |-> JStr(<<"Ada">>), company |-> None,
         selected_goals |-> JList(<<JStr(<<"reach">>), JStr(<<>>), JStr(<<"hiring">>)>>),
         selected_hooks |-> EmptyList])

\* rows of user_memories, as add_memories stores them
StoredMemories ==
  { MemoryRow(<<"u1">>, MemoryItem(JDict([memory |-> JStr(<<"likes", " ", "tea">>)]))),
    MemoryRow(<<"u2">>, MemoryItem(JDict([memory |-> JStr(<<"other">>),
                                          source |-> JStr(<<"chat">>),
                                          importance |-> None]))) }

\* rows of news_hooks, as store_news_hooks stores them
NewsHookRow(industry, industry_slug) ==
  JDict([industry |-> JStr(<<industry>>), industry_slug |-> JStr(<<industry_slug>>),
         summary |-> JStr(<<industry, " snapshot: ", "T1">>),
         hooks |-> JList(<<JStr(<<"hook">>)>>)])

NewsHookRows == {NewsHookRow("Technology", "technology"), NewsHookRow("Energy", "energy")}

ContextStores ==
  { [onboarding_context |-> o, user_memories |-> m, news_hooks |-> n] :
      o \in {<<OnboardingRow(<<"u2">>)>>, <<OnboardingRow(<<"u2">>), OnboardingRow(<<"u1">>)>>},
      m \in SeqsUpTo(StoredMemories, MaxMemoryRows),
      n \in SeqsUpTo(NewsHookRows, MaxNewsRows) }

\* the environment of the process: the row store is configured; the vector
\* search is or is not
ContextEnvironments ==
  { [v \in {"SUPABASE_URL", "SUPABASE_SERVICE_ROLE_KEY"} |-> <<"set">>],
    [v \in {"SUPABASE_URL", "SUPABASE_SERVICE_ROLE_KEY", "QDRANT_URL", "QDRANT_KEY",
            "OPENAI_API_KEY"} |-> <<"set">>] }

ContextArgs ==
  [query : {None, JStr(<<" ">>), JStr(<<"q">>)},
   memory_limit : {1, DefaultMemoryLimit},
   news_limit : {0, 1, DefaultNewsLimit}]

\* one hit of the vector search
Hit(score, payload) == JDict([id |-> JStr(<<"p1">>), score |-> score, payload |-> payload])

SearchOutcomes ==
  { Raise("UnexpectedResponse"),
    EmptyList,
    JList(<<Hit(JNum(<<"0.9">>), JDict([content |-> JStr(<<"doc">>)]))>>),
    JList(<<Hit(JNum(<<"0.12345">>), None)>>),
    JList(<<Hit(None, JDict([content |-> JStr(<<"doc">>)]))>>) }

Upstream ==
  [onboarding : BOOLEAN, memories : BOOLEAN, news : BOOLEAN, search : SearchOutcomes]

\* a caller holds the arguments of build_prompt_context
InitContext ==
  /\ now = 0
  /\ env \in ContextEnvironments
  /\ client = FALSE
  /\ cache = <<>>
  /\ store = <<>>
  /\ tasks = EmptyBag
  /\ bulk = NoBulk
  /\ ncalls = 0
  /\ gets = EmptyBag
  /\ okAt = <<>>
  /\ firstWindow = <<>>
  /\ db \in ContextStores
  /\ \E args \in ContextArgs : last = Event("context?", None, args, None)

\* await service.build_prompt_context(user_id, query, memory_limit, news_limit)
\* with the upstream calls ending as in `up`
BuildPromptContext(up) ==
  /\ last.op = "context?"
  /\ last' = Event("context", None, [args |-> last.input, up |-> up],
                   build_prompt_context(env, db, ContextUser, last.input.query,
                                        last.input.memory_limit, last.input.news_limit, up))
  /\ UNCHANGED <<now, env, client, cache, store, tasks, bulk, ncalls, gets, okAt, db, firstWindow>>

NextContext == \E up \in Upstream : BuildPromptContext(up)

SpecContext == InitContext /\ [][NextContext]_vars

(***************************************************************************)
(* Vocabulary of the prompt-context properties.  After BuildPromptContext, *)
(* last.input.args are the arguments, last.input.up the upstream outcomes  *)
(* and last.response the bundle or the exception.                          *)
(***************************************************************************)
ContextBuilt == last.op = "context"
Bundle == last.response.t = "bundle"
HasRow(table) == \E i \in 1..Len(db[table]) : db[table][i].v["user_id"] = JStr(ContextUser)
NoQuery == last.input.args.query = None \/ Strip(last.input.args.query.v) = <<>>
Contains(text, piece) == \E i \in 1..Len(text) : text[i] = piece
BlankLineAt(text, i) == text[i] = "\n" /\ text[i + 1] = "\n"
OnboardingOpenings ==
  { "Onboarding context: none found for this user.",
    "Onboarding context: Personalization data captured during signup. " }
MemoryOpenings == {"No stored memories yet.", "User memory (keep this in mind):"}

\* C22: for a user with no onboarding row and no memories, news_limit = 0 and
\* no query, with both reads succeeding, build_prompt_context returns a bundle
\* whose prompt_context is "Onboarding context: none found for this user."
\* and "No stored memories yet." joined by a blank line, with no news and no
\* vector matches.
C22_EmptyUserGetsThePlaceholders ==
  ( /\ ContextBuilt
    /\ ~last.input.up.onboarding /\ ~last.input.up.memories
    /\ ~HasRow("onboarding_context") /\ ~HasRow("user_memories")
    /\ last.input.args.news_limit = 0
    /\ NoQuery )
  => /\ Bundle
     /\ last.response.prompt_context =
          <<"Onboarding context: none found for this user.", "\n", "\n",
            "No stored memories yet.">>
     /\ last.response.onboarding = None
     /\ last.response.memories = <<>>
     /\ last.response.news = <<>>
     /\ last.response.vector_matches = <<>>

C22_OtherUsersRowsOnly ==
  /\ ContextBuilt
  /\ Bundle
  /\ ~HasRow("onboarding_context") /\ ~HasRow("user_memories")
  /\ Len(db["user_memories"]) = MaxMemoryRows
  /\ Len(db["news_hooks"]) = MaxNewsRows
  /\ last.input.args.news_limit = 0
  /\ last.input.args.query = None
  /\ QdrantConfigured(env)
  /\ Len(last.response.prompt_context) = 4

\* C23: with news_limit > 0, n >= 1 records in news_hooks and the read of the
\* store succeeding, the bundle's news are the min(n, news_limit) newest
\* records, each rendered as a "- {industry}: {summary}" line, and the
\* placeholder "No recent news context available." is absent.
C23_NewsAreTheNewestRecords ==
  ( /\ ContextBuilt
    /\ Bundle
    /\ last.input.args.news_limit > 0
    /\ ~last.input.up.news
    /\ Len(db["news_hooks"]) >= 1 )
  => /\ last.response.news = Take(Reverse(db["news_hooks"]), last.input.args.news_limit)
     /\ Contains(last.response.prompt_context, "Recent news context:")
     /\ ~Contains(last.response.prompt_context, "No recent news context available.")

\* C24: build_prompt_context never raises: whichever upstream read fails and
\* whatever the vector search reports, a bundle is returned.
C24_ContextNeverRaises == ContextBuilt => Bundle

\* C29: a returned prompt_context opens with an onboarding section, which a
\* blank line and then the memories section follow; it is never empty and
\* never "No personalization context available.".
C29_OnboardingThenMemories ==
  (ContextBuilt /\ Bundle) =>
    LET text == last.response.prompt_context IN
      /\ text # <<>>
      /\ text # <<"No personalization context available.">>
      /\ text[1] \in OnboardingOpenings
      /\ \E i \in 2..(Len(text) - 2) :
           /\ BlankLineAt(text, i)
           /\ \A j \in 1..(i - 1) : ~BlankLineAt(text, j)
           /\ text[i + 2] \in MemoryOpenings

C29_EverySectionPresent ==
  /\ ContextBuilt
  /\ Bundle
  /\ HasRow("onboarding_context")
  /\ Len(last.response.memories) = 1
  /\ last.response.vector_matches # <<>>
  /\ Contains(last.response.prompt_context, "No recent news context available.")
  /\ Contains(last.response.prompt_context, "Vector search matches:")
  /\ Contains(last.response.prompt_context, "User memory (keep this in mind):")

(***************************************************************************)
(* POST /api/memory on a growing user_memories table                        *)
(***************************************************************************)
MaxBatch == 6
MaxAdds == 2

PlainItem == JDict([memory |-> JStr(<<"m">>)])

\* request items: as plain as can be, with an importance, padded, blank
RawItems ==
  {PlainItem}
  \cup {JDict([memory |-> JStr(<<"m">>), source |-> JStr(<<" ", "chat">>), importance |-> i]) :
          i \in {None, JInt(0), JInt(1), JInt(5), JInt(6)}}
  \cup {JDict([memory |-> JStr(<<" ", "m", " ">>)]), JDict([memory |-> JStr(<<" ">>)])}

\* a request body of k items: plain ones, and `item` at place pos
MemoryBody(k, pos, item) ==
  JDict([memories |-> JList([i \in 1..k |-> IF i = pos THEN item ELSE PlainItem])])

MemoryBodies(n) ==
  UNION {{MemoryBody(k, pos, item) : pos \in {1, k}, item \in RawItems} : k \in 0..n}

\* the process environment: the admin client is or is not available
MemoryEnvironments ==
  { [v \in {"SUPABASE_URL", "SUPABASE_ANON_KEY", "SUPABASE_SERVICE_ROLE_KEY"} |-> <<"set">>],
    [v \in {"SUPABASE_URL", "SUPABASE_ANON_KEY"} |-> <<"set">>] }

InitMemory ==
  /\ now = 0
  /\ env \in MemoryEnvironments
  /\ client = FALSE
  /\ cache = <<>>
  /\ store = <<>>
  /\ tasks = EmptyBag
  /\ bulk = NoBulk
  /\ ncalls = 0
  /\ gets = EmptyBag
  /\ okAt = <<>>
  /\ firstWindow = <<>>
  /\ db = NoRows
  /\ last = Event("init", None, None, None)

\* POST /api/memory by the authenticated user with `body`; fails: the insert
\* raises
AddMemories(body, fails) ==
  /\ ncalls < MaxAdds
  /\ ncalls' = ncalls + 1
  /\ LET done == add_memories(env, db["user_memories"], ContextUser, body, fails) IN
       /\ db' = [db EXCEPT !["user_memories"] = done.rows]
       /\ last' = Event("add", None,
                        [body |-> body, fails |-> fails, before |-> db["user_memories"]],
                        done.answer)
  /\ UNCHANGED <<now, env, client, cache, store, tasks, bulk, gets, okAt, firstWindow>>

NextMemory == \E body \in MemoryBodies(MaxBatch), fails \in BOOLEAN : AddMemories(body, fails)

SpecMemory == InitMemory /\ [][NextMemory]_vars

(***************************************************************************)
(* Vocabulary of the add_memories properties.  After AddMemories,          *)
(* last.input.body is the request body, last.input.before the table before *)
(* the call and last.response the answer.                                  *)
(***************************************************************************)
Added == last.op = "add"
Items == last.input.body.v["memories"].v
Saved == last.response.t = "saved"
Refused(status_code) == IsHTTPException(last.response) /\ last.response.status_code = status_code
TextOk(raw, key, max_length) ==
  /\ raw.v[key].t = "str"
  /\ Len(Strip(raw.v[key].v)) \in 1..max_length
ImportanceGiven(raw) == "importance" \in DOMAIN raw.v /\ raw.v["importance"] # None
TextsOk(raw) ==
  /\ "memory" \in DOMAIN raw.v /\ TextOk(raw, "memory", 500)
  /\ "source" \in DOMAIN raw.v => TextOk(raw, "source", 100)
ValidItem(raw) ==
  /\ TextsOk(raw)
  /\ ImportanceGiven(raw) => (raw.v["importance"].t = "int" /\ raw.v["importance"].v \in 1..5)
Clamped(n) == IF n < 1 THEN 1 ELSE IF n > 5 THEN 5 ELSE n
TableAfter == db["user_memories"]
NewRows == SubSeq(TableAfter, Len(last.input.before) + 1, Len(TableAfter))

\* C25: with the admin client available and every item valid, add_memories
\* answers a batch of 0 items and a batch of more than 5 items with 400 and
\* inserts nothing; for a batch of k items, 1 <= k <= 5, it either appends
\* exactly k rows to the table and reports k inserted, or (the insert having
\* failed) leaves the table as it was.  No refused call changes the table.
C25_BatchOfOneToFiveAllOrNothing ==
  Added =>
    /\ (AdminAvailable(env) /\ \A i \in 1..Len(Items) : ValidItem(Items[i])) =>
         /\ (Len(Items) = 0 \/ Len(Items) > 5) => (Refused(400) /\ NewRows = <<>>)
         /\ Len(Items) \in 1..5 =>
              \/ /\ Saved
                 /\ ~last.input.fails
                 /\ last.response.inserted = Len(Items)
                 /\ Len(NewRows) = Len(Items)
                 /\ NewRows = last.response.data
              \/ /\ Refused(500)
                 /\ last.input.fails
                 /\ NewRows = <<>>
    /\ SubSeq(TableAfter, 1, Len(last.input.before)) = last.input.before
    /\ ~Saved => NewRows = <<>>

C25_FiveRowsAppended ==
  /\ Added
  /\ Saved
  /\ Len(Items) = 5
  /\ Len(last.input.before) = 1
  /\ Len(TableAfter) = 6
  /\ last.response.inserted = 5

\* C26: every accepted item is stored with its importance clamped to 1..5 (a
\* value below 1 as 1, a value above 5 as 5) and with 3 when it has none: a
\* batch of 1..5 items with valid texts and integer or absent importances is
\* saved and row i carries the clamped importance of item i.
C26_ImportanceIsClamped ==
  ( /\ Added
    /\ AdminAvailable(env)
    /\ ~last.input.fails
    /\ Len(Items) \in 1..5
    /\ \A i \in 1..Len(Items) : TextsOk(Items[i]) )
  => /\ Saved
     /\ Len(NewRows) = Len(Items)
     /\ \A i \in 1..Len(NewRows) :
          NewRows[i].v["importance"] =
            JInt(IF ImportanceGiven(Items[i]) THEN Clamped(Items[i].v["importance"].v) ELSE 3)

(***************************************************************************)
(* openai_rate_limiter = RateLimiter(10, 3600) called for two addresses    *)
(***************************************************************************)
WaitSeconds == 1800
MaxWaits == 2

LimiterIps == {"10.0.0.1", "10.0.0.2"}

InitLimiter ==
  /\ now = 0
  /\ env = <<>>
  /\ client = FALSE
  /\ cache = <<>>
  /\ store = <<>>
  /\ tasks = EmptyBag
  /\ bulk = NoBulk
  /\ ncalls = 0
  /\ gets = EmptyBag
  /\ okAt = <<>>
  /\ firstWindow = <<>>
  /\ db = NoRows
  /\ last = Event("init", None, None, None)

\* time passes between two requests
Wait ==
  /\ now + WaitSeconds <= MaxWaits * WaitSeconds
  /\ now' = now + WaitSeconds
  /\ last' = Event("wait", None, None, None)
  /\ UNCHANGED <<env, client, cache, store, tasks, bulk, ncalls, gets, okAt, db, firstWindow>>

\* openai_rate_limiter.check_rate_limit(ip)
CheckRateLimit(ip, sameReading) ==
  /\ LET rl == check_rate_limit(store, ip, now, sameReading,
                                OpenaiMaxRequests, OpenaiWindowSeconds) IN
       /\ store' = rl.store
       /\ firstWindow' = WindowAfter(firstWindow, ip, now, rl.allowed, OpenaiWindowSeconds)
       /\ last' = Event("check", None, [ip |-> ip, before |-> store], rl.allowed)
  /\ UNCHANGED <<now, env, client, cache, tasks, bulk, ncalls, gets, okAt, db>>

\* openai_rate_limiter.get_remaining_requests(ip)
GetRemainingRequests(ip) ==
  /\ LET rr == get_remaining_requests(store, ip, now, OpenaiMaxRequests) IN
       /\ store' = rr.store
       /\ last' = Event("remaining", None, [ip |-> ip, before |-> store], rr.remaining)
  /\ UNCHANGED <<now, env, client, cache, tasks, bulk, ncalls, gets, okAt, db, firstWindow>>

NextLimiter ==
  \/ Wait
  \/ \E ip \in LimiterIps, sameReading \in BOOLEAN : CheckRateLimit(ip, sameReading)
  \/ \E ip \in LimiterIps : GetRemainingRequests(ip)

SpecLimiter == InitLimiter /\ [][NextLimiter]_vars

\* C27: an address is admitted at most max_requests times within
\* window_seconds of its first call: of the calls made before the first
\* window has elapsed, the (max_requests + 1)-th is refused.
C27_AtMostMaxRequestsInFirstWindow ==
  \A ip \in DOMAIN firstWindow : firstWindow[ip].admitted <= OpenaiMaxRequests

\* C30: a check_rate_limit(ip) call that answers False leaves the stored
\* (count, reset_time) of ip as it was; no check_rate_limit call changes the
\* entry of another address or adds or removes one; no stored count exceeds
\* max_requests.
C30_RefusalAndOthersUntouched ==
  /\ last.op = "check" =>
       /\ ~last.response =>
            /\ last.input.ip \in DOMAIN last.input.before
            /\ store[last.input.ip] = last.input.before[last.input.ip]
       /\ DOMAIN store = DOMAIN last.input.before \cup {last.input.ip}
       /\ \A other \in DOMAIN store \ {last.input.ip} : store[other] = last.input.before[other]
  /\ \A ip \in DOMAIN store : store[ip].count <= OpenaiMaxRequests

C30_RefusedBesideAnotherAddress ==
  /\ last.op = "check"
  /\ ~last.response
  /\ store[last.input.ip].count = OpenaiMaxRequests
  /\ now < store[last.input.ip].reset_time
  /\ \E other \in DOMAIN store \ {last.input.ip} :
       /\ store[other].count \in 1..(OpenaiMaxRequests - 1)
       /\ now < store[other].reset_time

ResultsOf(answer) == IF IsHTTPException(answer) THEN <<>> ELSE answer.results
TimesIn(q, slug) == Cardinality({j \in 1..Len(q) : q[j].slug = slug})

\* C28: a bulk fetch accounts for every resolved slug exactly once: the slug
\* is once in results or once in errors, never in both and never in neither,
\* so results and errors together are as many as the resolved slugs; the
\* resolved slugs are distinct and the request has at most one
\* get_industry_news coroutine per slug.
C28_EverySlugAccountedOnce ==
  /\ Gathered =>
       /\ \A i \in 1..Len(last.input.slugs) :
            TimesIn(ResultsOf(last.response), last.input.slugs[i][1])
              + TimesIn(ErrorsOf(last.response), last.input.slugs[i]) = 1
       /\ Len(ResultsOf(last.response)) + Len(ErrorsOf(last.response)) = Len(last.input.slugs)
       /\ \A i, j \in 1..Len(last.input.slugs) :
            last.input.slugs[i] = last.input.slugs[j] => i = j
  /\ \A a \in BagToSet(tasks) :
       /\ CopiesIn(a, tasks) = 1
       /\ \A b \in BagToSet(tasks) : a.slug = b.slug => a = b

C28_RepeatedSlugFetchedOnce ==
  /\ Gathered
  /\ last.input.slugs = <<<<"energy">>, <<"technology">>>>
  /\ Len(ResultsOf(last.response)) = 1
  /\ Len(ErrorsOf(last.response)) = 1
  /\ ErrorsOf(last.response)[1].status_code = 500

====
